---------------------------- MODULE Spec2Model ----------------------------
(***************************************************************************)
(* mautrix-simplex: the transport multiplexer (simplexclient.Client), the  *)
(* one-shot fallback channel, and the connection lifecycle of              *)
(* connector.SimplexClient, as state machines.                             *)
(*                                                                         *)
(* Part A models one simplexclient.Client: the goroutines that call        *)
(* sendCmd / sendCmdRetryOnce, the readLoop goroutine, and the goroutine   *)
(* that consumes Events() (connector eventLoop).                           *)
(* Part B models SimplexClient.Connect / tryConnect / eventLoop /          *)
(* Disconnect over a sequence of Client instances.                         *)
(*                                                                         *)
(* The WebSocket library is environment: a Read or Write that returns an   *)
(* error has closed the connection ("On any error from any method, the     *)
(* connection is closed"), and every later Read or Write fails.            *)
(***************************************************************************)
EXTENDS Naturals, Integers, Sequences, FiniteSets, TLC

\* ------------------------------------------------------------------ bounds
\* Send calls and inbound frames of Spec (routing and teardown).
MaxCalls == 2
MaxFrames == 2
\* Send calls and inbound frames of SpecRetry (the file-send retry path).
MaxRetryCalls == 1
MaxRetryFrames == 1
\* Send calls and inbound frames of FairSpec.
MaxFairCalls == 2
MaxFairFrames == 1
\* Frames beyond a full queue, and events consumed, in SpecQueue.
QueueSlack == 2
\* Inbound frames of SpecEvents (the reader and the event consumer).
MaxEvFrames == 4
\* Send calls of SpecAlloc (the allocation of corrIds).
MaxAllocCalls == 2
\* SpecReconn: sends issued across the Clients of one login.
MaxConnCalls == 2
\* SpecHandler: events whose handler issues a synchronous command.
MaxHandled == 1
\* SpecIds: the width the int64 ids are scaled to (ids are the signed
\* integers of IdBits bits), and the length of the strings decoded.
IdBits == 5
MaxKeyLen == 4
\* Contact, group and request ids, and events handled, in SpecChat.
MaxChatIds == 2
MaxChatEvents == 2
\* Chat items the remote events are about, in SpecForward.
MaxItems == 2
\* Clients a login creates, failed dials per connect cycle, and events
\* buffered per Client, in SpecLife and FairLife.
MaxConns == 2
MaxRetry == 2
MaxQueued == 1
\* Capacity of eventsCh: make(chan Event, 64).
EventCap == 64
\* tryConnect: if retryIn > 150 { retryIn = 150 }
BackoffCap == 150
\* The width of Go's int, the type of retryIn := 2 << retryCount.
IntBits == 64
\* Failed dials of one connect cycle in SpecBackoff: past the width of int.
MaxAttempts == 65

\* The calls any specification may make (those a specification does not
\* start stay idle).
Calls == 1..(MaxCalls + MaxRetryCalls + MaxFairCalls)

\* ------------------------------------------------------------------ state
VARIABLES
    corrID,     \* Client.corrID, the atomic counter
    pending,    \* Client.pending: corrId -> the call whose channel is registered
    ch,         \* the channel made by each call's sendRaw: [st, val]
    ws,         \* the persistent connection: "open" | "closed"
    pc,         \* where each call is
    kind,       \* "plain" (sendCmd) | "file" (sendCmdRetryOnce)
    myCorr,     \* the corrId a call allocated for the persistent connection
    sendRes,    \* what sendRaw returned to the call: [st, val]
    ret,        \* what SendMessages / SendMessagesRetryOnce returned
    writes,     \* commands a call wrote on the persistent connection
    oneShots,   \* sendOneShotCmd invocations of a call
    osCorr,     \* the corrId a call's one-shot allocated
    rpc,        \* where readLoop is
    cur,        \* the frame readLoop is processing
    rch,        \* the call whose channel readLoop looked up (0: none)
    nread,      \* frames read so far (the next frame's identity)
    eventsCh,   \* Client.eventsCh: the buffered events
    evCloses,   \* how often eventsCh was closed
    nenq,       \* events enqueued so far (the next event's sequence number)
    epc,        \* where the consumer of Events() is
    handling,   \* the event the consumer's handler is running on
    nhandled,   \* handlers that returned
    tornSet,    \* history: the calls whose slot readLoop's teardown closed
    lastDrop,   \* history: the last frame dropped because eventsCh was full
    spurEnq,    \* history: a frame with an unmatched corrId was enqueued
    osWs,       \* a call's fallback connection: "none" | "open" | "closed"
    osWrites,   \* ws.Write calls of a call on its fallback connection
    osLast,     \* the frame a call's one-shot read loop read last
    allocLog    \* history: the ids corrID.Add(1) returned, in order, each
                \* with whether it was a key of pending then

VARIABLES
    cpc,          \* whether Connect was called: "idle" | "called"
    client,       \* SimplexClient.Client: 0 (nil) or the installed Client
    cancelFn,     \* SimplexClient.cancelFn: 0 (nil) or the connCtx it cancels
    cancelled,    \* the connCtx's whose cancel function was called
    tc,           \* the tryConnect goroutines, by connect cycle: [pc, ctx, retry, conn]
    ncycles,      \* connect cycles started
    el,           \* the eventLoop goroutines, by connCtx: [pc, evs]
    nconns,       \* Clients created by simplexclient.New
    cws,          \* each Client's connection: "none" | "open" | "closed"
    cevClosed,    \* whether each Client's readLoop closed its eventsCh
    cq,           \* events buffered in each Client's eventsCh
    lastStatus,   \* the last BridgeState sent
    syncs,        \* syncChats goroutines launched
    dpc,          \* where Disconnect is: "idle" | "cancelled" | "done"
    discAt,       \* history: what Disconnect interrupted
    crashed,      \* a goroutine panicked on a nil s.Client
    lossReported  \* history: the connections whose loss eventLoop reported

lifeVars == <<cpc, client, cancelFn, cancelled, tc, ncycles, el, nconns, cws,
              cevClosed, cq, lastStatus, syncs, dpc, discAt, crashed,
              lossReported>>

VARIABLES
    chatsSynced,  \* UserLoginMetadata.ChatsSynced
    sy            \* the syncChats goroutines, by connect: [pc, recon, cok, gok, issued]

VARIABLES
    fwd,          \* the Message events handed to QueueRemoteEvent
    skipped,      \* history: items a newChatItems event left unforwarded
    seen,         \* history: the items newChatItems events carried
    completed     \* history: the items rcvFileComplete events carried

VARIABLES
    rxIn,         \* the emoji of the Matrix reaction (PreHandleResp.Emoji)
    rxClient,     \* whether s.Client was installed when the add was handled
    rxCmds,       \* the /_reaction commands ReactToChatItem issued
    rxAdd,        \* what HandleMatrixReaction returned
    rxRemove      \* what HandleMatrixReactionRemove returned

VARIABLES
    revt,         \* the chatItemReaction event handled last
    rop           \* the simplevent.Reaction queued for it (NoOp: none)

syncVars == <<chatsSynced, sy>>
fwdVars == <<fwd, skipped, seen, completed>>

reactVars == <<rxIn, rxClient, rxCmds, rxAdd, rxRemove>>

VARIABLES
    hevs,         \* history: the contact and group events handled, in order
    hpc,          \* handleReceivedContactRequest: "idle" | "accepting"
    hcmds,        \* the /_accept commands issued (the request ids)
    hops,         \* the simplevent.ChatResync events queued, in order
    hghosts       \* the contacts whose ghost got UpdateInfo, in order

VARIABLES
    enc,          \* the ids encoded, their keys and what the keys decode to
    dec           \* the string decoded and what each parser returned

VARIABLES
    inst,         \* SimplexClient.Client: 0 (nil) or the Client installed
    kws,          \* each Client's ws: "none" | "open" | "closed"
    ktorn,        \* whether each Client's readLoop ran its teardown
    kcorrID,      \* each Client's corrID counter
    kpending,     \* each Client's pending table: corrId -> call
    kcall         \* the sends: [pc, conn, corr, res, by, frame]

VARIABLES
    dlog          \* history: the events handleSimplexEvent ran on, each with the
                  \* handler it called ("none": it only logged)
VARIABLES
    lastBad       \* history: the last frame readLoop skipped because it was not JSON
VARIABLES
    ed            \* the last item-updated or items-deleted event and its operations
idVars == <<enc, dec>>
reconnVars == <<inst, kws, ktorn, kcorrID, kpending, kcall>>
dispVars == <<dlog>>
readVars == <<lastBad>>
editVars == <<ed>>
revtVars == <<revt, rop>>
chatVars == <<hevs, hpc, hcmds, hops, hghosts>>

connVars == <<syncVars, fwdVars, reactVars, revtVars, chatVars, idVars,
              reconnVars,
              dispVars,
              readVars,
              editVars>>
\* What the syncChats steps, the chat item handlers, the Matrix reaction
\* handlers and the reaction event handler leave alone.
notSync == <<fwdVars, reactVars, revtVars, chatVars, idVars,
    reconnVars,
    dispVars,
    readVars,
    editVars>>
notFwd == <<syncVars, reactVars, revtVars, chatVars, idVars,
    reconnVars,
    dispVars,
    readVars,
    editVars>>
notReact == <<syncVars, fwdVars, revtVars, chatVars, idVars,
    reconnVars,
    dispVars,
    readVars,
    editVars>>
notRevt == <<syncVars, fwdVars, reactVars, chatVars, idVars,
    reconnVars,
    dispVars,
    readVars,
    editVars>>
notChat == <<syncVars, fwdVars, reactVars, revtVars, idVars,
    reconnVars,
    dispVars,
    readVars,
    editVars>>
notId == <<syncVars, fwdVars, reactVars, revtVars, chatVars, reconnVars,
    dispVars,
    readVars,
    editVars>>
notReconn == <<syncVars, fwdVars, reactVars, revtVars, chatVars, idVars,
    dispVars,
    readVars,
    editVars>>
notDisp == <<syncVars, fwdVars, reactVars, revtVars,
    chatVars, idVars, reconnVars,
    readVars,
    editVars>>
notRead == <<syncVars, fwdVars, reactVars, revtVars,
    chatVars, idVars, reconnVars, dispVars,
    editVars>>
notEdit == <<syncVars, fwdVars, reactVars, revtVars,
    chatVars, idVars, reconnVars, dispVars, readVars>>

fbVars == <<osWs, osWrites, osLast, allocLog>>

muxVars == <<corrID, pending, ch, ws, pc, kind, myCorr, sendRes, ret, writes,
             oneShots, osCorr, rpc, cur, rch, nread, eventsCh, evCloses,
             nenq, epc, handling, nhandled, tornSet, lastDrop, spurEnq,
             fbVars>>

vars == <<muxVars, lifeVars, connVars>>

\* ------------------------------------------------------------------ values
\* A frame as readLoop sees it after json.Unmarshal: corr = 0 is corrId null;
\* body is "bad" (the envelope is not JSON), "nil" (no resp), "untyped" (a
\* resp without a type string) or the resp's type.
NoFrame == [corr |-> 0, body |-> "none", fid |-> 0]
NoRead == [corr |-> 0, body |-> "none"]
RespBodies == {"nil", "untyped", "newChatItems", "other"}
TypedBodies == {"newChatItems", "other"}
NoEvent == [seq |-> 0, typ |-> "none", fid |-> 0]

\* What the remote process may send: any frame, with any corrId up to the
\* first one not yet allocated.
FramesAll ==
    {[corr |-> 0, body |-> "bad"]}
        \cup {[corr |-> k, body |-> b] : k \in 0..(corrID + 1), b \in RespBodies}

\* The frames that differ for routing: not JSON, a resp without a type, a
\* typed resp, each with any corrId.
FramesRouting ==
    {[corr |-> 0, body |-> "bad"]}
        \cup {[corr |-> k, body |-> b] : k \in 0..(corrID + 1),
                                         b \in {"untyped", "other"}}

\* Responses of every shape to the corrIds allocated so far.
FramesResp == {[corr |-> k, body |-> b] : k \in 1..corrID, b \in RespBodies}

\* Typed frames only: events (corrId null or unmatched) and typed responses.
FramesTyped == {[corr |-> k, body |-> "other"] : k \in 0..(corrID + 1)}

EmptyMap == [k \in {} |-> 0]
MapPut(m, k, v) == [x \in (DOMAIN m) \cup {k} |-> IF x = k THEN v ELSE m[x]]
MapDel(m, k) == [x \in (DOMAIN m) \ {k} |-> m[x]]

InitMux ==
    /\ corrID = 0
    /\ pending = EmptyMap
    /\ ch = [c \in Calls |-> [st |-> "nil", val |-> NoFrame]]
    /\ ws = "open"
    /\ pc = [c \in Calls |-> "idle"]
    /\ kind = [c \in Calls |-> "none"]
    /\ myCorr = [c \in Calls |-> 0]
    /\ sendRes = [c \in Calls |-> [st |-> "none", val |-> NoFrame]]
    /\ ret = [c \in Calls |-> "none"]
    /\ writes = [c \in Calls |-> 0]
    /\ oneShots = [c \in Calls |-> 0]
    /\ osCorr = [c \in Calls |-> 0]
    /\ rpc = "read"
    /\ cur = NoFrame
    /\ rch = 0
    /\ nread = 0
    /\ eventsCh = <<>>
    /\ evCloses = 0
    /\ nenq = 0
    /\ epc = "select"
    /\ handling = NoEvent
    /\ nhandled = 0
    /\ tornSet = {}
    /\ lastDrop = 0
    /\ spurEnq = FALSE
    /\ osWs = [c \in Calls |-> "none"]
    /\ osWrites = [c \in Calls |-> 0]
    /\ osLast = [c \in Calls |-> NoRead]
    /\ allocLog = <<>>

\* The Clients and connCtx's of a login (connCtx k is made for Client k; 0 is
\* the context Connect was called with), and its connect cycles.
Conns == 1..MaxConns
Cycles == 1..(MaxConns + 1)
NoCycle == [pc |-> "none", ctx |-> 0, retry |-> 0, conn |-> 0, wait |-> 0]
NoLoop == [pc |-> "none", evs |-> 0]

InitLife ==
    /\ cpc = "idle"
    /\ client = 0
    /\ cancelFn = 0
    /\ cancelled = {}
    /\ tc = [i \in Cycles |-> NoCycle]
    /\ ncycles = 0
    /\ el = [k \in Conns |-> NoLoop]
    /\ nconns = 0
    /\ cws = [k \in Conns |-> "none"]
    /\ cevClosed = [k \in Conns |-> FALSE]
    /\ cq = [k \in Conns |-> 0]
    /\ lastStatus = "none"
    /\ syncs = 0
    /\ dpc = "idle"
    /\ discAt = "none"
    /\ crashed = FALSE
    /\ lossReported = {}

\* The chats the remote process holds, and a syncChats goroutine not started.
Contacts == <<"c1", "c2">>
Groups == <<"g1">>
NoSync == [pc |-> "none", recon |-> FALSE, cok |-> FALSE, gok |-> FALSE,
           issued |-> <<>>]

InitSync ==
    /\ chatsSynced = FALSE
    /\ sy = [k \in Conns |-> NoSync]

InitFwd ==
    /\ fwd = {}
    /\ skipped = {}
    /\ seen = {}
    /\ completed = {}

InitReact ==
    /\ rxIn = <<>>
    /\ rxClient = FALSE
    /\ rxCmds = <<>>
    /\ rxAdd = "none"
    /\ rxRemove = "none"

NoReaction ==
    [contact |-> FALSE, member |-> FALSE, dir |-> "none", chatContact |-> FALSE,
     item |-> 0, added |-> FALSE, seen |-> FALSE]
NoOp == [type |-> "none", sender |-> "none", target |-> 0]

InitRevt ==
    /\ revt = NoReaction
    /\ rop = NoOp

InitChat ==
    /\ hevs = <<>>
    /\ hpc = "idle"
    /\ hcmds = <<>>
    /\ hops = <<>>
    /\ hghosts = <<>>

InitId ==
    /\ enc = [done |-> FALSE]
    /\ dec = [done |-> FALSE]

\* No Client yet; every send still to be issued.
NoSend == [pc |-> "idle", conn |-> 0, corr |-> 0, res |-> "none", by |-> 0,
           frame |-> 0]

InitReconn ==
    /\ inst = 0
    /\ kws = [k \in Conns |-> "none"]
    /\ ktorn = [k \in Conns |-> FALSE]
    /\ kcorrID = [k \in Conns |-> 0]
    /\ kpending = [k \in Conns |-> EmptyMap]
    /\ kcall = [c \in 1..MaxConnCalls |-> NoSend]

InitDisp ==
    dlog = <<>>

InitRead ==
    lastBad = 0

InitEdit ==
    /\ ed = [done |-> FALSE]

InitConn ==
    /\ InitSync /\ InitFwd /\ InitReact /\ InitRevt /\ InitChat /\ InitId
    /\ InitReconn
    /\ InitDisp
    /\ InitRead
    /\ InitEdit

Init == InitMux /\ InitLife /\ InitConn

\* ------------------------------------------------- the send path (callers)
\* corrID.Add(1) as the log sees it: the id returned, and whether that id was
\* a key of pending at that moment
Allocation(id) == [id |-> id, clash |-> id \in DOMAIN pending]

\* An allocation that reads the counter and leaves it as it was.
SendCmdStale(c, k) ==
    /\ pc[c] = "idle"
    /\ IF c = 1 THEN TRUE ELSE pc[c - 1] # "idle"
    /\ myCorr' = [myCorr EXCEPT ![c] = IF corrID = 0 THEN 1 ELSE corrID]
    /\ corrID' = IF corrID = 0 THEN 1 ELSE corrID
    /\ allocLog' = Append(allocLog, Allocation(IF corrID = 0 THEN 1 ELSE corrID))
    /\ kind' = [kind EXCEPT ![c] = k]
    /\ pc' = [pc EXCEPT ![c] = "alloc"]
    /\ UNCHANGED <<pending, ch, ws, sendRes, ret, writes, oneShots, osCorr, rpc,
                   cur, rch, nread, eventsCh, evCloses, nenq, epc, handling,
                   nhandled, tornSet, lastDrop,
                   spurEnq, osWs, osWrites, osLast, lifeVars, connVars>>

\* sendCmd / sendCmdRetryOnce: id := c.corrID.Add(1); corrID := Sprintf("%d", id)
SendCmd(c, k) ==
    /\ pc[c] = "idle"
    /\ IF c = 1 THEN TRUE ELSE pc[c - 1] # "idle"  \* numbered in start order
    /\ corrID' = corrID + 1
    /\ myCorr' = [myCorr EXCEPT ![c] = corrID + 1]
    /\ allocLog' = Append(allocLog, Allocation(corrID + 1))
    /\ kind' = [kind EXCEPT ![c] = k]
    /\ pc' = [pc EXCEPT ![c] = "alloc"]
    /\ UNCHANGED <<pending, ch, ws, sendRes, ret, writes, oneShots, osCorr, rpc,
                   cur, rch, nread, eventsCh, evCloses, nenq, epc, handling,
                   nhandled, tornSet, lastDrop,
                   spurEnq, osWs, osWrites, osLast, lifeVars, connVars>>

\* sendRaw: ch := make(chan, 1); lock; c.pending[corrID] = ch; unlock
SendRawRegister(c) ==
    /\ pc[c] = "alloc"
    /\ ch' = [ch EXCEPT ![c] = [st |-> "empty", val |-> NoFrame]]
    /\ pending' = MapPut(pending, myCorr[c], c)
    /\ pc' = [pc EXCEPT ![c] = "reg"]
    /\ UNCHANGED <<corrID, ws, kind, myCorr, sendRes, ret, writes, oneShots,
                   osCorr, rpc, cur, rch, nread, eventsCh, evCloses, nenq, epc,
                   handling, nhandled, tornSet, lastDrop,
                   spurEnq, fbVars, lifeVars, connVars>>

\* sendRaw: c.ws.Write succeeds; the caller goes on to resp, ok := <-ch
SendRawWrite(c) ==
    /\ pc[c] = "reg"
    /\ ws = "open"
    /\ writes' = [writes EXCEPT ![c] = @ + 1]
    /\ pc' = [pc EXCEPT ![c] = "wait"]
    /\ UNCHANGED <<corrID, pending, ch, ws, kind, myCorr, sendRes, ret,
                   oneShots, osCorr, rpc, cur, rch, nread, eventsCh, evCloses, nenq,
                   epc, handling, nhandled, tornSet, lastDrop,
                   spurEnq, fbVars, lifeVars, connVars>>

\* A write failure after which the caller still waits on its channel.
SendRawWriteFailNoReturn(c) ==
    /\ pc[c] = "reg"
    /\ ws' = "closed"
    /\ pending' = MapDel(pending, myCorr[c])
    /\ pc' = [pc EXCEPT ![c] = "wait"]
    /\ UNCHANGED <<corrID, ch, kind, myCorr, sendRes, ret, writes, oneShots,
                   osCorr, rpc, cur, rch, nread, eventsCh, evCloses, nenq, epc,
                   handling, nhandled, tornSet, lastDrop,
                   spurEnq, fbVars, lifeVars, connVars>>

\* sendRaw: c.ws.Write fails (always on a closed connection; on an open one
\* the failure closes it); lock; delete(c.pending, corrID); unlock; return err
SendRawWriteFail(c) ==
    /\ pc[c] = "reg"
    /\ ws' = "closed"
    /\ pending' = MapDel(pending, myCorr[c])
    /\ sendRes' = [sendRes EXCEPT ![c] = [st |-> "write", val |-> NoFrame]]
    /\ pc' = [pc EXCEPT ![c] = "returned"]
    /\ UNCHANGED <<corrID, ch, kind, myCorr, ret, writes, oneShots, osCorr,
                   rpc, cur, rch, nread, eventsCh, evCloses, nenq, epc, handling,
                   nhandled, tornSet, lastDrop,
                   spurEnq, fbVars, lifeVars, connVars>>

\* sendRaw: resp, ok := <-ch; ok: return resp, nil
SendRawRecv(c) ==
    /\ pc[c] = "wait"
    /\ ch[c].st = "full"
    /\ sendRes' = [sendRes EXCEPT ![c] = [st |-> "resp", val |-> ch[c].val]]
    /\ ch' = [ch EXCEPT ![c] = [st |-> "empty", val |-> NoFrame]]
    /\ pc' = [pc EXCEPT ![c] = "returned"]
    /\ UNCHANGED <<corrID, pending, ws, kind, myCorr, ret, writes, oneShots,
                   osCorr, rpc, cur, rch, nread, eventsCh, evCloses, nenq, epc,
                   handling, nhandled, tornSet, lastDrop,
                   spurEnq, fbVars, lifeVars, connVars>>

\* sendRaw: resp, ok := <-ch; !ok: "connection closed while waiting for response"
SendRawClosed(c) ==
    /\ pc[c] = "wait"
    /\ ch[c].st = "closed"
    /\ sendRes' = [sendRes EXCEPT ![c] = [st |-> "closed", val |-> NoFrame]]
    /\ pc' = [pc EXCEPT ![c] = "returned"]
    /\ UNCHANGED <<corrID, pending, ch, ws, kind, myCorr, ret, writes,
                   oneShots, osCorr, rpc, cur, rch, nread, eventsCh, evCloses, nenq,
                   epc, handling, nhandled, tornSet, lastDrop,
                   spurEnq, fbVars, lifeVars, connVars>>

\* A check that takes every response for the expected one.
ParseResultLax(body) == "ok"

\* sendCmd's json.Unmarshal(raw, &respType) and SendMessages' check of the type
ParseResult(body) ==
    IF body = "nil" THEN "err_parse"
    ELSE IF body # "newChatItems" THEN "err_type"
    ELSE "ok"

\* A fallback taken on every failure, also a rejected response.
RetryOnceAnyFailure(k, res) ==
    k = "file" /\ (res.st # "resp" \/ ParseResult(res.val.body) # "ok")

\* A fallback taken by every send whose sendRaw returned an error.
RetryOnceAnyKind(k, res) == res.st # "resp"

\* sendCmdRetryOnce falls back to sendOneShotCmd when sendRaw returned an error
RetryOnce(k, res) == k = "file" /\ res.st # "resp"

\* sendCmd / sendCmdRetryOnce after sendRaw returned, up to the return of
\* SendMessages / SendMessagesRetryOnce or the call of sendOneShotCmd
SendCmdReturn(c) ==
    /\ pc[c] = "returned"
    /\ IF RetryOnce(kind[c], sendRes[c])
       THEN /\ oneShots' = [oneShots EXCEPT ![c] = @ + 1]
            /\ pc' = [pc EXCEPT ![c] = "os_dial"]
            /\ ret' = ret
       ELSE /\ ret' = [ret EXCEPT ![c] =
                          IF sendRes[c].st = "resp"
                          THEN ParseResult(sendRes[c].val.body)
                          ELSE "err_transport"]
            /\ pc' = [pc EXCEPT ![c] = "done"]
            /\ oneShots' = oneShots
    /\ UNCHANGED <<corrID, pending, ch, ws, kind, myCorr, sendRes, writes,
                   osCorr, rpc, cur, rch, nread, eventsCh, evCloses, nenq, epc,
                   handling, nhandled, tornSet, lastDrop,
                   spurEnq, fbVars, lifeVars, connVars>>

\* ------------------------------------------------- the one-shot fallback
\* sendOneShotCmd: defer ws.Close(websocket.StatusNormalClosure, ...), run on
\* every return that follows a successful Dial
OneShotClose(c) ==
    osWs' = [osWs EXCEPT ![c] = IF @ = "open" THEN "closed" ELSE @]

\* A return that leaves the fallback connection as it is.
OneShotReturnOpen(c, r) ==
    /\ ret' = [ret EXCEPT ![c] = r]
    /\ pc' = [pc EXCEPT ![c] = "done"]
    /\ osWs' = osWs

\* sendOneShotCmd: a return, with the result SendMessagesRetryOnce makes of it
OneShotReturn(c, r) ==
    /\ ret' = [ret EXCEPT ![c] = r]
    /\ pc' = [pc EXCEPT ![c] = "done"]
    /\ OneShotClose(c)

\* sendOneShotCmd: the error returns (dial, write, read)
OneShotFail(c) == OneShotReturn(c, "err_oneshot")

\* sendOneShotCmd: websocket.Dial; on success id := c.corrID.Add(1)
OneShotDial(c) ==
    /\ pc[c] = "os_dial"
    /\ \/ /\ osWs' = [osWs EXCEPT ![c] = "open"]
          /\ osCorr' = [osCorr EXCEPT ![c] = corrID + 1]
          /\ corrID' = corrID + 1
          /\ allocLog' = Append(allocLog, Allocation(corrID + 1))
          /\ pc' = [pc EXCEPT ![c] = "os_write"]
          /\ ret' = ret
       \/ /\ OneShotFail(c)
          /\ UNCHANGED <<corrID, osCorr, allocLog>>
    /\ UNCHANGED <<pending, ch, ws, kind, myCorr, sendRes, writes, oneShots,
                   rpc, cur, rch, nread, eventsCh, evCloses, nenq, epc, handling,
                   nhandled, tornSet, lastDrop,
                   spurEnq, osWrites, osLast, lifeVars, connVars>>

\* sendOneShotCmd: ws.Write on the fresh connection
OneShotWrite(c) ==
    /\ pc[c] = "os_write"
    /\ osWrites' = [osWrites EXCEPT ![c] = @ + 1]
    /\ \/ /\ pc' = [pc EXCEPT ![c] = "os_read"]
          /\ UNCHANGED <<ret, osWs>>
       \/ OneShotFail(c)
    /\ UNCHANGED <<corrID, pending, ch, ws, kind, myCorr, sendRes, writes,
                   oneShots, osCorr, rpc, cur, rch, nread, eventsCh, evCloses, nenq,
                   epc, handling, nhandled, tornSet, lastDrop,
                   spurEnq, osLast, allocLog, lifeVars, connVars>>

\* The frames a one-shot connection may deliver, as far as the read loop
\* tells them apart: one that is not JSON, an event (corrId null), a frame
\* with the corrId the call used on the persistent connection, and a
\* response of any shape with the corrId of the fallback.
OneShotFrames(c) ==
    {[corr |-> 0, body |-> "bad"]}
        \cup {[corr |-> k, body |-> "other"] : k \in {0, myCorr[c]}}
        \cup {[corr |-> osCorr[c], body |-> b] : b \in RespBodies}

\* A read loop that takes any frame with a corrId for its response.
OneShotMatchAny(f, id) == f.body # "bad" /\ f.corr # 0

\* sendOneShotCmd: json.Unmarshal(respData, &envelope) succeeded and
\* envelope.CorrID != nil && *envelope.CorrID == corrID
OneShotMatch(f, id) == f.body # "bad" /\ f.corr # 0 /\ f.corr = id

\* sendOneShotCmd: one turn of the read loop: a read error returns it; a
\* frame that is not JSON or carries another corrId is skipped; the frame
\* with the call's corrId is returned (its type parsed)
OneShotRead(c) ==
    /\ pc[c] = "os_read"
    /\ \/ /\ OneShotFail(c)
          /\ osLast' = osLast
       \/ \E f \in OneShotFrames(c) :
            /\ osLast' = [osLast EXCEPT ![c] = f]
            /\ IF OneShotMatch(f, osCorr[c])
               THEN OneShotReturn(c, ParseResult(f.body))
               ELSE UNCHANGED <<ret, pc, osWs>>
    /\ UNCHANGED <<corrID, pending, ch, ws, kind, myCorr, sendRes, writes,
                   oneShots, osCorr, rpc, cur, rch, nread, eventsCh, evCloses, nenq,
                   epc, handling, nhandled, tornSet, lastDrop,
                   spurEnq, osWrites, allocLog, lifeVars, connVars>>

\* ------------------------------------------------- readLoop
Range(m) == {m[k] : k \in DOMAIN m}

\* A reader that gives the connection up on a frame that is not JSON.
ReadLoopReadStrict(limit, F) ==
    /\ rpc = "read"
    /\ ws = "open"
    /\ nread < limit
    /\ nread' = nread + 1
    /\ \E f \in F :
         IF f.body = "bad"
         THEN /\ lastBad' = nread + 1
              /\ rpc' = "teardown"
              /\ UNCHANGED cur
         ELSE /\ cur' = [corr |-> f.corr, body |-> f.body, fid |-> nread + 1]
              /\ rpc' = "got"
              /\ UNCHANGED lastBad
    /\ UNCHANGED <<corrID, pending, ch, ws, pc, kind, myCorr, sendRes, ret,
                   writes, oneShots, osCorr, rch, eventsCh, evCloses, nenq,
                   epc, handling, nhandled, tornSet, lastDrop,
                   spurEnq, fbVars, lifeVars, notRead>>

\* readLoop: c.ws.Read returns a frame and json.Unmarshal decodes the
\* envelope; a frame that is not JSON is logged and skipped
ReadLoopRead(limit, F) ==
    /\ rpc = "read"
    /\ ws = "open"
    /\ nread < limit
    /\ nread' = nread + 1
    /\ \E f \in F :
         IF f.body = "bad"
         THEN /\ lastBad' = nread + 1
              /\ UNCHANGED <<rpc, cur>>
         ELSE /\ cur' = [corr |-> f.corr, body |-> f.body, fid |-> nread + 1]
              /\ rpc' = "got"
              /\ UNCHANGED lastBad
    /\ UNCHANGED <<corrID, pending, ch, ws, pc, kind, myCorr, sendRes, ret,
                   writes, oneShots, osCorr, rch, eventsCh, evCloses, nenq,
                   epc, handling, nhandled, tornSet, lastDrop,
                   spurEnq, fbVars, lifeVars, notRead>>

\* readLoop: c.ws.Read returns an error (always on a closed connection; on
\* an open one the failure closes it)
ReadLoopReadErr ==
    /\ rpc = "read"
    /\ ws' = "closed"
    /\ rpc' = "teardown"
    /\ UNCHANGED <<corrID, pending, ch, pc, kind, myCorr, sendRes, ret, writes,
                   oneShots, osCorr, cur, rch, nread, eventsCh, evCloses, nenq,
                   epc, handling, nhandled, tornSet, lastDrop,
                   spurEnq, fbVars, lifeVars, connVars>>

\* Client.Close: c.ws.Close(StatusNormalClosure, ...)
ClientClose ==
    /\ ws = "open"
    /\ ws' = "closed"
    /\ UNCHANGED <<corrID, pending, ch, pc, kind, myCorr, sendRes, ret, writes,
                   oneShots, osCorr, rpc, cur, rch, nread, eventsCh, evCloses,
                   nenq, epc, handling, nhandled, tornSet, lastDrop,
                   spurEnq, fbVars, lifeVars, connVars>>

\* A lookup that takes any registered slot, whatever its key.
LookupAny(p, k) == IF DOMAIN p # {} THEN p[CHOOSE x \in DOMAIN p : TRUE] ELSE 0

\* readLoop: ch, ok := c.pending[*msg.CorrID] (0: !ok)
Lookup(p, k) == IF k \in DOMAIN p THEN p[k] ELSE 0

\* readLoop: msg.CorrID != nil: lock; look the slot up; delete it; unlock
ReadLoopRoute ==
    /\ rpc = "got"
    /\ cur.corr # 0
    /\ rch' = Lookup(pending, cur.corr)
    /\ IF Lookup(pending, cur.corr) # 0
       THEN /\ pending' = MapDel(pending, cur.corr)
            /\ rpc' = "deliver"
       ELSE /\ pending' = pending
            /\ rpc' = "spurious"
    /\ UNCHANGED <<corrID, ch, ws, pc, kind, myCorr, sendRes, ret, writes,
                   oneShots, osCorr, cur, nread, eventsCh, evCloses, nenq, epc,
                   handling, nhandled, tornSet, lastDrop,
                   spurEnq, fbVars, lifeVars, connVars>>

\* readLoop: ch <- msg.Resp (the channel's buffer holds one value)
ReadLoopDeliver ==
    /\ rpc = "deliver"
    /\ ch[rch].st = "empty"
    /\ ch' = [ch EXCEPT ![rch] = [st |-> "full", val |-> cur]]
    /\ rpc' = "read"
    /\ cur' = NoFrame
    /\ rch' = 0
    /\ UNCHANGED <<corrID, pending, ws, pc, kind, myCorr, sendRes, ret, writes,
                   oneShots, osCorr, nread, eventsCh, evCloses, nenq,
                   epc, handling, nhandled, tornSet, lastDrop,
                   spurEnq, fbVars, lifeVars, connVars>>

\* A test that forgets the type: msg.Resp != nil only.
IsEventUntyped(f) == f.body \in TypedBodies \cup {"untyped"}

\* readLoop: msg.Resp != nil && typeInfo.Type != ""
IsEvent(f) == f.body \in TypedBodies

\* A full queue that drops its oldest event to take the new one.
EnqueueDropOldest(q, e) ==
    IF Len(q) < EventCap THEN Append(q, e) ELSE Append(Tail(q), e)

\* readLoop: select { case c.eventsCh <- evt: default: (dropped) }
Enqueue(q, e) == IF Len(q) < EventCap THEN Append(q, e) ELSE q

\* The Event readLoop builds from the current frame.
EventOf(f) == [seq |-> nenq + 1, typ |-> f.body, fid |-> f.fid]

\* An enqueue that waits for room: c.eventsCh <- evt without the default.
PutEventBlocking ==
    IF IsEvent(cur)
    THEN /\ Len(eventsCh) < EventCap
         /\ eventsCh' = Append(eventsCh, EventOf(cur))
         /\ nenq' = nenq + 1
         /\ UNCHANGED <<lastDrop, spurEnq>>
    ELSE UNCHANGED <<eventsCh, nenq, lastDrop, spurEnq>>

PutEvent ==
    IF IsEvent(cur)
    THEN /\ eventsCh' = Enqueue(eventsCh, EventOf(cur))
         /\ nenq' = IF eventsCh' # eventsCh THEN nenq + 1 ELSE nenq
         /\ lastDrop' = IF eventsCh' # eventsCh THEN lastDrop ELSE cur.fid
         /\ spurEnq' = (spurEnq \/ (cur.corr # 0 /\ eventsCh' # eventsCh))
    ELSE UNCHANGED <<eventsCh, nenq, lastDrop, spurEnq>>

\* readLoop: a corrId with no pending command: treated as an async event
ReadLoopSpurious ==
    /\ rpc = "spurious"
    /\ PutEvent
    /\ rpc' = "read"
    /\ cur' = NoFrame
    /\ rch' = 0
    /\ UNCHANGED <<corrID, pending, ch, ws, pc, kind, myCorr, sendRes, ret,
                   writes, oneShots, osCorr, nread, evCloses, epc,
                   handling, nhandled, tornSet,
                   fbVars, lifeVars, connVars>>

\* readLoop: corrId null: an async event if msg.Resp != nil and it has a type
ReadLoopAsync ==
    /\ rpc = "got"
    /\ cur.corr = 0
    /\ PutEvent
    /\ rpc' = "read"
    /\ cur' = NoFrame
    /\ rch' = 0
    /\ UNCHANGED <<corrID, pending, ch, ws, pc, kind, myCorr, sendRes, ret,
                   writes, oneShots, osCorr, nread, evCloses, epc,
                   handling, nhandled, tornSet,
                   fbVars, lifeVars, connVars>>

\* A teardown that forgets the channels it drops from the table.
CloseNone(chs, p) == chs

\* A teardown that closes the channel of every call that made one, still
\* in the table or not.
CloseEvery(chs, p) ==
    [c \in Calls |-> IF chs[c].st # "nil"
                     THEN [st |-> "closed", val |-> NoFrame]
                     ELSE chs[c]]

\* readLoop: for _, ch := range c.pending { close(ch) }
CloseAll(chs, p) ==
    [c \in Calls |-> IF c \in Range(p)
                     THEN [st |-> "closed", val |-> NoFrame]
                     ELSE chs[c]]

\* readLoop on a read error: lock; close every pending channel;
\* c.pending = make(map); unlock
ReadLoopTeardown ==
    /\ rpc = "teardown"
    /\ ch' = CloseAll(ch, pending)
    /\ tornSet' = Range(pending)
    /\ pending' = EmptyMap
    /\ rpc' = "closeEv"
    /\ UNCHANGED <<corrID, ws, pc, kind, myCorr, sendRes, ret, writes,
                   oneShots, osCorr, cur, rch, nread, eventsCh, evCloses, nenq,
                   epc, handling, nhandled, lastDrop,
                   spurEnq, fbVars, lifeVars, connVars>>

\* readLoop: close(c.eventsCh); return
ReadLoopCloseEvents ==
    /\ rpc = "closeEv"
    /\ evCloses' = evCloses + 1
    /\ rpc' = "done"
    /\ UNCHANGED <<corrID, pending, ch, ws, pc, kind, myCorr, sendRes, ret,
                   writes, oneShots, osCorr, cur, rch, nread, eventsCh, nenq,
                   epc, handling, nhandled, tornSet, lastDrop,
                   spurEnq, fbVars, lifeVars, connVars>>

\* ------------------------------------------------- the consumer of Events()
\* A receive that leaves the event in the channel.
EventLoopRecvPeek(limit) ==
    /\ epc = "select"
    /\ Len(eventsCh) > 0
    /\ nhandled < limit
    /\ handling' = Head(eventsCh)
    /\ epc' = "handling"
    /\ UNCHANGED <<corrID, pending, ch, ws, pc, kind, myCorr, sendRes, ret,
                   writes, oneShots, osCorr, rpc, cur, rch, nread, eventsCh,
                   evCloses, nenq, nhandled, tornSet, lastDrop,
                   spurEnq, fbVars, lifeVars, connVars>>

\* eventLoop: case evt, ok := <-events with ok: the handler starts
EventLoopRecv(limit) ==
    /\ epc = "select"
    /\ Len(eventsCh) > 0
    /\ nhandled < limit
    /\ handling' = Head(eventsCh)
    /\ eventsCh' = Tail(eventsCh)
    /\ epc' = "handling"
    /\ UNCHANGED <<corrID, pending, ch, ws, pc, kind, myCorr, sendRes, ret,
                   writes, oneShots, osCorr, rpc, cur, rch, nread, evCloses,
                   nenq, nhandled, tornSet, lastDrop,
                   spurEnq, fbVars, lifeVars, connVars>>

\* eventLoop: s.handleSimplexEvent(ctx, evt) returns
EventLoopHandled ==
    /\ epc = "handling"
    /\ nhandled' = nhandled + 1
    /\ handling' = NoEvent
    /\ epc' = "select"
    /\ UNCHANGED <<corrID, pending, ch, ws, pc, kind, myCorr, sendRes, ret,
                   writes, oneShots, osCorr, rpc, cur, rch, nread, eventsCh,
                   evCloses, nenq, tornSet, lastDrop,
                   spurEnq, fbVars, lifeVars, connVars>>

\* eventLoop: case evt, ok := <-events with !ok (closed and drained)
EventLoopClosed ==
    /\ epc = "select"
    /\ Len(eventsCh) = 0
    /\ evCloses > 0
    /\ epc' = "closed"
    /\ UNCHANGED <<corrID, pending, ch, ws, pc, kind, myCorr, sendRes, ret,
                   writes, oneShots, osCorr, rpc, cur, rch, nread, eventsCh,
                   evCloses, nenq, handling, nhandled, tornSet, lastDrop,
                   spurEnq, fbVars, lifeVars, connVars>>

\* handleReceivedContactRequest / handleRcvFileDescrReady: the handler the
\* consumer runs calls s.Client.AcceptContact / ReceiveFile, a sendCmd (the
\* n-th handler makes call n)
HandlerSend(c) ==
    /\ epc = "handling"
    /\ c = nhandled + 1
    /\ SendCmd(c, "plain")

\* The handler returns once its command returned.
HandlerReturn ==
    /\ pc[nhandled + 1] = "done"
    /\ EventLoopHandled

\* handleSimplexEvent: the event types that have a case in the switch (of
\* the types the reader's frames carry here)
KnownEventTypes == {"newChatItems"}

\* A dispatch that hands the payload to the handler whether it decoded or not.
HandlerUnchecked(typ, decodes) == IF typ \in KnownEventTypes THEN typ ELSE "none"

\* handleSimplexEvent: switch evt.Type; json.Unmarshal(evt.Raw, &data) fails:
\* log and return; default: log
HandlerFor(typ, decodes) ==
    IF typ \in KnownEventTypes /\ decodes THEN typ ELSE "none"

\* eventLoop: s.handleSimplexEvent(ctx, evt) runs and returns
HandleSimplexEvent(decodes) ==
    /\ epc = "handling"
    /\ dlog' = Append(dlog, [seq |-> handling.seq, typ |-> handling.typ,
                             decodes |-> decodes,
                             handler |-> HandlerFor(handling.typ, decodes)])
    /\ nhandled' = nhandled + 1
    /\ handling' = NoEvent
    /\ epc' = "select"
    /\ UNCHANGED <<corrID, pending, ch, ws, pc, kind, myCorr, sendRes, ret,
                   writes, oneShots, osCorr, rpc, cur, rch, nread, eventsCh,
                   evCloses, nenq, tornSet, lastDrop,
                   spurEnq, fbVars, lifeVars, notDisp>>

\* ------------------------------------------------- the connection lifecycle
\* context.WithCancel: connCtx k is a child of the context of the cycle that
\* made it, which is connCtx k-1 (or Connect's context): cancelling one
\* cancels every later one.  Connect's context is not cancelled here.
IsCancelled(x) == \E j \in cancelled : j <= x

\* 2 << n in an int of IntBits bits: the one set bit is bit n+1.  The value
\* is exact up to 2^7; a larger positive value is BackoffCap + 1, the
\* minimum int (the set bit is the sign bit) is -1, and the value is 0 once
\* the bit is shifted out: the code only compares retryIn with 150 and
\* time.After only looks at the sign.
Shl2(n) ==
    IF n + 1 >= IntBits THEN 0
    ELSE IF n + 1 = IntBits - 1 THEN -1
    ELSE IF n + 1 <= 7 THEN 2 ^ (n + 1)
    ELSE BackoffCap + 1

\* A retryIn without the cap.
RetryInUncapped(n) == Shl2(n)

\* retryIn := 2 << retryCount; if retryIn > 150 { retryIn = 150 }
RetryIn(n) == IF Shl2(n) > BackoffCap THEN BackoffCap ELSE Shl2(n)

\* The seconds time.After(time.Duration(retryIn) * time.Second) waits: a
\* duration that is not positive fires at once.
RetryWait(n) == IF RetryIn(n) > 0 THEN RetryIn(n) ELSE 0

\* A cycle that starts from a loss with the attempt counter not reset.
NewCycleKeepCount(x) ==
    [pc |-> "start", ctx |-> x, retry |-> 1, conn |-> 0, wait |-> 0]

\* eventLoop: go s.tryConnect(ctx, 0), a cycle with a fresh attempt counter.
NewCycle(x) == [pc |-> "start", ctx |-> x, retry |-> 0, conn |-> 0, wait |-> 0]

\* Connect: no URL -> BadCredentials; else s.tryConnect(ctx, 0)
Connect(hasURL) ==
    /\ ~crashed
    /\ cpc = "idle"
    /\ cpc' = "called"
    /\ IF hasURL
       THEN /\ ncycles' = ncycles + 1
            /\ tc' = [tc EXCEPT ![ncycles + 1] =
                         [pc |-> "start", ctx |-> 0, retry |-> 0, conn |-> 0,
                          wait |-> 0]]
            /\ UNCHANGED lastStatus
       ELSE /\ lastStatus' = "bad_credentials"
            /\ UNCHANGED <<ncycles, tc>>
    /\ UNCHANGED <<client, cancelFn, cancelled, el, nconns, cws, cevClosed, cq,
                   syncs, dpc, discAt, crashed, lossReported, muxVars, connVars>>

\* tryConnect: if retryCount == 0 { Send(StateConnecting) }; then New is called
TryConnectStart(i) ==
    /\ ~crashed
    /\ tc[i].pc = "start"
    /\ lastStatus' = IF tc[i].retry = 0 THEN "connecting" ELSE lastStatus
    /\ tc' = [tc EXCEPT ![i].pc = "dial"]
    /\ UNCHANGED <<cpc, client, cancelFn, cancelled, ncycles, el, nconns, cws,
                   cevClosed, cq, syncs, dpc, discAt, crashed, lossReported,
                   muxVars, connVars>>

\* simplexclient.New succeeds (never with a cancelled context): a new Client,
\* its connection open and its readLoop running.
DialOk(i) ==
    /\ ~crashed
    /\ tc[i].pc = "dial"
    /\ ~IsCancelled(tc[i].ctx)
    /\ nconns < MaxConns
    /\ nconns' = nconns + 1
    /\ cws' = [cws EXCEPT ![nconns + 1] = "open"]
    /\ tc' = [tc EXCEPT ![i].pc = "install", ![i].conn = nconns + 1,
                         ![i].wait = 0]
    /\ UNCHANGED <<cpc, client, cancelFn, cancelled, ncycles, el, cevClosed, cq,
                   lastStatus, syncs, dpc, discAt, crashed, lossReported,
                   muxVars, connVars>>

\* simplexclient.New fails: Send(StateTransientDisconnect), retryIn computed,
\* the goroutine enters the select on time.After and ctx.Done
DialFail(i, limit) ==
    /\ ~crashed
    /\ tc[i].pc = "dial"
    /\ tc[i].retry < limit
    /\ lastStatus' = "transient_disconnect"
    /\ tc' = [tc EXCEPT ![i].pc = "wait", ![i].wait = RetryWait(tc[i].retry)]
    /\ UNCHANGED <<cpc, client, cancelFn, cancelled, ncycles, el, nconns, cws,
                   cevClosed, cq, syncs, dpc, discAt, crashed, lossReported,
                   muxVars, connVars>>

\* A wait after which the cycle gives up instead of dialling again.
WaitElapsedGiveUp(i) ==
    /\ ~crashed
    /\ tc[i].pc = "wait"
    /\ tc' = [tc EXCEPT ![i].pc = "exit", ![i].retry = @ + 1]
    /\ UNCHANGED <<cpc, client, cancelFn, cancelled, ncycles, el, nconns, cws,
                   cevClosed, cq, lastStatus, syncs, dpc, discAt, crashed,
                   lossReported, muxVars, connVars>>

\* case <-time.After(...): s.tryConnect(ctx, retryCount+1), which dials
WaitElapsed(i) ==
    /\ ~crashed
    /\ tc[i].pc = "wait"
    /\ tc' = [tc EXCEPT ![i].pc = "dial", ![i].retry = @ + 1]
    /\ UNCHANGED <<cpc, client, cancelFn, cancelled, ncycles, el, nconns, cws,
                   cevClosed, cq, lastStatus, syncs, dpc, discAt, crashed,
                   lossReported, muxVars, connVars>>

\* case <-ctx.Done(): return
WaitCancelled(i) ==
    /\ ~crashed
    /\ tc[i].pc = "wait"
    /\ IsCancelled(tc[i].ctx)
    /\ tc' = [tc EXCEPT ![i].pc = "exit", ![i].retry = 0, ![i].wait = 0]
    /\ UNCHANGED <<cpc, client, cancelFn, cancelled, ncycles, el, nconns, cws,
                   cevClosed, cq, lastStatus, syncs, dpc, discAt, crashed,
                   lossReported, muxVars, connVars>>

\* A tryConnect that reports and launches without s.Client = client.
InstallUnset(i) ==
    /\ ~crashed
    /\ tc[i].pc = "install"
    /\ lastStatus' = "connected"
    /\ syncs' = syncs + 1
    /\ tc' = [tc EXCEPT ![i].pc = "spawn"]
    /\ UNCHANGED <<cpc, client, cancelFn, cancelled, ncycles, el, nconns, cws,
                   cevClosed, cq, dpc, discAt, crashed, lossReported, muxVars, connVars>>

\* s.Client = client; Send(StateConnected); go s.syncChats(ctx)
Install(i) ==
    /\ ~crashed
    /\ tc[i].pc = "install"
    /\ client' = tc[i].conn
    /\ lastStatus' = "connected"
    /\ syncs' = syncs + 1
    /\ tc' = [tc EXCEPT ![i].pc = "spawn"]
    /\ UNCHANGED <<cpc, cancelFn, cancelled, ncycles, el, nconns, cws,
                   cevClosed, cq, dpc, discAt, crashed, lossReported, muxVars, connVars>>

\* connCtx, cancel := WithCancel(ctx); s.cancelFn = cancel; go s.eventLoop(connCtx)
Spawn(i) ==
    /\ ~crashed
    /\ tc[i].pc = "spawn"
    /\ cancelFn' = tc[i].conn
    /\ el' = [el EXCEPT ![tc[i].conn] = [pc |-> "start", evs |-> 0]]
    /\ tc' = [tc EXCEPT ![i].pc = "exit", ![i].retry = 0]
    /\ UNCHANGED <<cpc, client, cancelled, ncycles, nconns, cws, cevClosed, cq,
                   lastStatus, syncs, dpc, discAt, crashed, lossReported,
                   muxVars, connVars>>

\* eventLoop: events := s.Client.Events(), a nil dereference if s.Client is nil
EventLoopStart(k) ==
    /\ ~crashed
    /\ el[k].pc = "start"
    /\ IF client = 0
       THEN /\ crashed' = TRUE
            /\ el' = [el EXCEPT ![k].pc = "panic"]
       ELSE /\ el' = [el EXCEPT ![k] = [pc |-> "select", evs |-> client]]
            /\ UNCHANGED crashed
    /\ UNCHANGED <<cpc, client, cancelFn, cancelled, tc, ncycles, nconns, cws,
                   cevClosed, cq, lastStatus, syncs, dpc, discAt, lossReported,
                   muxVars, connVars>>

\* case <-ctx.Done(): return
EventLoopCtxDone(k) ==
    /\ ~crashed
    /\ el[k].pc = "select"
    /\ IsCancelled(k)
    /\ el' = [el EXCEPT ![k].pc = "exit"]
    /\ UNCHANGED <<cpc, client, cancelFn, cancelled, tc, ncycles, nconns, cws,
                   cevClosed, cq, lastStatus, syncs, dpc, discAt, crashed,
                   lossReported, muxVars, connVars>>

\* case evt, ok := <-events with ok: s.handleSimplexEvent(ctx, evt) starts
EventLoopEvent(k) ==
    /\ ~crashed
    /\ el[k].pc = "select"
    /\ cq[el[k].evs] > 0
    /\ cq' = [cq EXCEPT ![el[k].evs] = @ - 1]
    /\ el' = [el EXCEPT ![k].pc = "handling"]
    /\ UNCHANGED <<cpc, client, cancelFn, cancelled, tc, ncycles, nconns, cws,
                   cevClosed, lastStatus, syncs, dpc, discAt, crashed,
                   lossReported, muxVars, connVars>>

\* handleSimplexEvent returns; back to the select
EventLoopReturn(k) ==
    /\ ~crashed
    /\ el[k].pc = "handling"
    /\ el' = [el EXCEPT ![k].pc = "select"]
    /\ UNCHANGED <<cpc, client, cancelFn, cancelled, tc, ncycles, nconns, cws,
                   cevClosed, cq, lastStatus, syncs, dpc, discAt, crashed,
                   lossReported, muxVars, connVars>>

\* A loss after which the eventLoop starts the new cycle and goes on.
EventLoopLossStay(k) ==
    /\ ~crashed
    /\ el[k].pc = "select"
    /\ cq[el[k].evs] = 0
    /\ cevClosed[el[k].evs]
    /\ k \notin lossReported
    /\ lastStatus' = "transient_disconnect"
    /\ ncycles' = ncycles + 1
    /\ tc' = [tc EXCEPT ![ncycles + 1] = NewCycle(k)]
    /\ lossReported' = lossReported \cup {k}
    /\ UNCHANGED <<cpc, client, cancelFn, cancelled, el, nconns, cws, cevClosed,
                   cq, syncs, dpc, discAt, crashed, muxVars, connVars>>

\* !ok: Send(StateTransientDisconnect); go s.tryConnect(ctx, 0); return
EventLoopLoss(k) ==
    /\ ~crashed
    /\ el[k].pc = "select"
    /\ cq[el[k].evs] = 0
    /\ cevClosed[el[k].evs]
    /\ lastStatus' = "transient_disconnect"
    /\ ncycles' = ncycles + 1
    /\ tc' = [tc EXCEPT ![ncycles + 1] = NewCycle(k)]
    /\ lossReported' = lossReported \cup {k}
    /\ el' = [el EXCEPT ![k].pc = "exit"]
    /\ UNCHANGED <<cpc, client, cancelFn, cancelled, nconns, cws, cevClosed, cq,
                   syncs, dpc, discAt, crashed, muxVars, connVars>>

\* A Client's readLoop puts an event on eventsCh.
EventArrives(k) ==
    /\ ~crashed
    /\ cws[k] = "open"
    /\ ~cevClosed[k]
    /\ cq[k] < MaxQueued
    /\ cq' = [cq EXCEPT ![k] = @ + 1]
    /\ UNCHANGED <<cpc, client, cancelFn, cancelled, tc, ncycles, el, nconns,
                   cws, cevClosed, lastStatus, syncs, dpc, discAt, crashed,
                   lossReported, muxVars, connVars>>

\* The remote process or the network drops a Client's connection.
ConnLost(k) ==
    /\ ~crashed
    /\ cws[k] = "open"
    /\ cws' = [cws EXCEPT ![k] = "closed"]
    /\ UNCHANGED <<cpc, client, cancelFn, cancelled, tc, ncycles, el, nconns,
                   cevClosed, cq, lastStatus, syncs, dpc, discAt, crashed,
                   lossReported, muxVars, connVars>>

\* A Client's readLoop: Read fails on the closed connection; close(c.eventsCh)
ClientTeardown(k) ==
    /\ ~crashed
    /\ cws[k] = "closed"
    /\ ~cevClosed[k]
    /\ cevClosed' = [cevClosed EXCEPT ![k] = TRUE]
    /\ UNCHANGED <<cpc, client, cancelFn, cancelled, tc, ncycles, el, nconns,
                   cws, cq, lastStatus, syncs, dpc, discAt, crashed,
                   lossReported, muxVars, connVars>>

\* The login is Connected and steady: its Client is installed and open and
\* its eventLoop consumes that Client's events.
SteadyConnected ==
    /\ client # 0
    /\ cws[client] = "open"
    /\ el[client].pc \in {"select", "handling"}
    /\ el[client].evs = client

\* What a Disconnect that starts now interrupts.  A cycle started by a loss
\* is inside simplexclient.New either before the handshake is through
\* ("dial_after_loss") or after it, New not yet returned to tryConnect's
\* s.Client = client ("new_after_loss").
Situation ==
    IF \E i \in Cycles : tc[i].pc = "wait" /\ tc[i].ctx = 0 THEN "wait_initial"
    ELSE IF \E i \in Cycles : tc[i].pc = "wait" THEN "wait_after_loss"
    ELSE IF SteadyConnected THEN "connected"
    ELSE IF \E i \in Cycles : tc[i].pc = "dial" /\ tc[i].ctx # 0
    THEN "dial_after_loss"
    ELSE IF \E i \in Cycles : tc[i].pc = "install" /\ tc[i].ctx # 0
    THEN "new_after_loss"
    ELSE "other"

\* Disconnect: if s.cancelFn != nil { s.cancelFn() }
DisconnectCancel ==
    /\ ~crashed
    /\ dpc = "idle"
    /\ discAt' = Situation
    /\ cancelled' = IF cancelFn # 0 THEN cancelled \cup {cancelFn} ELSE cancelled
    /\ dpc' = "cancelled"
    /\ UNCHANGED <<cpc, client, cancelFn, tc, ncycles, el, nconns, cws,
                   cevClosed, cq, lastStatus, syncs, crashed, lossReported,
                   muxVars, connVars>>

\* Disconnect: if s.Client != nil { s.Client.Close(); s.Client = nil }
DisconnectClose ==
    /\ ~crashed
    /\ dpc = "cancelled"
    /\ cws' = IF client # 0 THEN [cws EXCEPT ![client] = "closed"] ELSE cws
    /\ client' = 0
    /\ dpc' = "done"
    /\ UNCHANGED <<cpc, cancelFn, cancelled, tc, ncycles, el, nconns, cevClosed,
                   cq, lastStatus, syncs, discAt, crashed, lossReported,
                   muxVars, connVars>>

\* ------------------------------------------------- syncChats
\* A resync that always carries the member list (no reconnect wrapper).
MemberPayloadFull(recon) == "full"

\* getChatInfoFunc: s.GetChatInfo, or on reconnect the wrapper that sets
\* info.Members = nil
MemberPayload(recon) == IF recon THEN "none" ELSE "full"

\* The ChatResync events queued for a listing: one per listed chat, each
\* CreatePortal: true with the run's getChatInfoFunc
Resyncs(list, recon) ==
    [n \in 1..Len(list) |->
        [chat |-> list[n], create |-> TRUE, members |-> MemberPayload(recon)]]

\* syncChats: if s.Client == nil return; isReconnect := meta.ChatsSynced;
\* ParseUserLoginID (on error: return)
SyncStart(k, parseOk) ==
    /\ ~crashed
    /\ k <= syncs
    /\ sy[k].pc = "none"
    /\ sy' = [sy EXCEPT ![k] =
                 IF client = 0 THEN [@ EXCEPT !.pc = "done"]
                 ELSE [@ EXCEPT !.recon = chatsSynced,
                                !.pc = IF parseOk THEN "contacts" ELSE "done"]]
    /\ UNCHANGED <<chatsSynced, muxVars, lifeVars, notSync>>

\* A listing fails on a closed connection and may fail on an open one.
ListingOk(answer) == answer /\ client # 0 /\ cws[client] = "open"

\* syncChats: s.Client.ListContacts (a nil s.Client panics); on success one
\* ChatResync per contact, on error only a log line
SyncContacts(k, answer) ==
    /\ ~crashed
    /\ sy[k].pc = "contacts"
    /\ IF client = 0
       THEN /\ crashed' = TRUE
            /\ sy' = [sy EXCEPT ![k].pc = "panic"]
       ELSE /\ sy' = [sy EXCEPT
                        ![k].pc = "groups",
                        ![k].cok = ListingOk(answer),
                        ![k].issued =
                            IF ListingOk(answer)
                            THEN @ \o Resyncs(Contacts, sy[k].recon) ELSE @]
            /\ UNCHANGED crashed
    /\ UNCHANGED <<chatsSynced, muxVars, cpc, client, cancelFn, cancelled, tc,
                   ncycles, el, nconns, cws, cevClosed, cq, lastStatus, syncs,
                   dpc, discAt, lossReported, notSync>>

\* syncChats: s.Client.ListGroups; on success one ChatResync per group
SyncGroups(k, answer) ==
    /\ ~crashed
    /\ sy[k].pc = "groups"
    /\ IF client = 0
       THEN /\ crashed' = TRUE
            /\ sy' = [sy EXCEPT ![k].pc = "panic"]
       ELSE /\ sy' = [sy EXCEPT
                        ![k].pc = "mark",
                        ![k].gok = ListingOk(answer),
                        ![k].issued =
                            IF ListingOk(answer)
                            THEN @ \o Resyncs(Groups, sy[k].recon) ELSE @]
            /\ UNCHANGED crashed
    /\ UNCHANGED <<chatsSynced, muxVars, cpc, client, cancelFn, cancelled, tc,
                   ncycles, el, nconns, cws, cevClosed, cq, lastStatus, syncs,
                   dpc, discAt, lossReported, notSync>>

\* syncChats: meta.ChatsSynced = true; s.UserLogin.Save(ctx)
SyncMark(k) ==
    /\ ~crashed
    /\ sy[k].pc = "mark"
    /\ chatsSynced' = TRUE
    /\ sy' = [sy EXCEPT ![k].pc = "done"]
    /\ UNCHANGED <<muxVars, lifeVars, notSync>>

\* ------------------------------------------------- inbound chat items
\* A chat item of an event: its id and its file (none, one without a local
\* path yet, one with a path).
ChatItems == [id : 1..MaxItems, file : {"none", "nopath", "path"}]

\* The items a rcvFileComplete event can be about: items with a file.
FileItems == {it \in ChatItems : it.file # "none"}

\* A handler that forwards every item, also one whose file is not there yet.
PendingFileNever(it) == FALSE

\* handleNewChatItems: item.File != nil && item.File.GetFilePath() == ""
PendingFile(it) == it.file # "none" /\ it.file = "nopath"

\* handleNewChatItems: the simplevent.Message queued for an item, by the
\* item its ID names and the file its conversion will read
MessageOp(it) == [id |-> it.id, file |-> it.file]

BatchItems(batch) == {batch[n] : n \in 1..Len(batch)}

\* handleNewChatItems: every item of the batch that is not skipped is queued
ForwardItems(batch) ==
    fwd' = fwd \cup {MessageOp(it) :
                        it \in {jt \in BatchItems(batch) : ~PendingFile(jt)}}

\* handleSimplexEvent, case "newChatItems"
HandleNewChatItems(batch) ==
    /\ ForwardItems(batch)
    /\ skipped' = skipped \cup {it.id :
                        it \in {jt \in BatchItems(batch) : PendingFile(jt)}}
    /\ seen' = seen \cup BatchItems(batch)
    /\ UNCHANGED <<completed, muxVars, lifeVars, notFwd>>

\* handleSimplexEvent, case "rcvFileComplete": handleNewChatItems on the
\* event's one chat item
HandleRcvFileComplete(it) ==
    /\ ForwardItems(<<it>>)
    /\ completed' = completed \cup {it}
    /\ UNCHANGED <<skipped, seen, muxVars, lifeVars, notFwd>>

\* ------------------------------------------------- sends across reconnects
\* One table for every Client of the login, kept across reconnects.
TableShared(k) == 1

\* New: pending: make(map[string]chan json.RawMessage), a table of the
\* Client's own (table k belongs to Client k)
TableOf(k) == k

\* tryConnect: simplexclient.New succeeded; s.Client = client.  A reconnect
\* follows the close of the previous Client's eventsCh by its readLoop.
NewClient ==
    /\ inst < MaxConns
    /\ inst # 0 => ktorn[inst]
    /\ inst' = inst + 1
    /\ kws' = [kws EXCEPT ![inst + 1] = "open"]
    /\ UNCHANGED <<ktorn, kcorrID, kpending, kcall, muxVars, lifeVars, notReconn>>

\* A caller reads s.Client and calls sendCmd on it: id := c.corrID.Add(1)
ClientSendCmd(c) ==
    /\ kcall[c].pc = "idle"
    /\ inst # 0
    /\ kcorrID' = [kcorrID EXCEPT ![inst] = @ + 1]
    /\ kcall' = [kcall EXCEPT ![c].pc = "alloc", ![c].conn = inst,
                               ![c].corr = kcorrID[inst] + 1]
    /\ UNCHANGED <<inst, kws, ktorn, kpending, muxVars, lifeVars, notReconn>>

\* sendRaw: lock; c.pending[corrID] = ch; unlock
ClientRegister(c) ==
    /\ kcall[c].pc = "alloc"
    /\ kpending' = [kpending EXCEPT ![TableOf(kcall[c].conn)] =
                        MapPut(@, kcall[c].corr, c)]
    /\ kcall' = [kcall EXCEPT ![c].pc = "reg"]
    /\ UNCHANGED <<inst, kws, ktorn, kcorrID, muxVars, lifeVars, notReconn>>

\* sendRaw: c.ws.Write on the Client's own connection; on an error the slot
\* is deleted and the error returned
ClientWrite(c) ==
    /\ kcall[c].pc = "reg"
    /\ IF kws[kcall[c].conn] = "open"
       THEN /\ kcall' = [kcall EXCEPT ![c].pc = "wait"]
            /\ UNCHANGED kpending
       ELSE /\ kcall' = [kcall EXCEPT ![c].pc = "returned",
                                      ![c].res = IF @ = "none" THEN "write" ELSE @]
            /\ kpending' = [kpending EXCEPT ![TableOf(kcall[c].conn)] =
                                MapDel(@, kcall[c].corr)]
    /\ UNCHANGED <<inst, kws, ktorn, kcorrID, muxVars, lifeVars, notReconn>>

\* sendRaw: resp, ok := <-ch
ClientRecv(c) ==
    /\ kcall[c].pc = "wait"
    /\ kcall[c].res \in {"resp", "closed"}
    /\ kcall' = [kcall EXCEPT ![c].pc = "returned"]
    /\ UNCHANGED <<inst, kws, ktorn, kcorrID, kpending, muxVars, lifeVars,
                   notReconn>>

\* Client k's readLoop reads a frame with corrId id on its connection, looks
\* it up in its table, deletes the slot and sends the payload on its channel
ClientFrame(k, id) ==
    /\ kws[k] = "open"
    /\ id \in DOMAIN kpending[TableOf(k)]
    /\ LET c == kpending[TableOf(k)][id]
       IN  kcall' = [kcall EXCEPT ![c].res = "resp", ![c].by = k, ![c].frame = id]
    /\ kpending' = [kpending EXCEPT ![TableOf(k)] = MapDel(@, id)]
    /\ UNCHANGED <<inst, kws, ktorn, kcorrID, muxVars, lifeVars, notReconn>>

\* Client k's connection fails or is closed.
ClientLost(k) ==
    /\ kws[k] = "open"
    /\ kws' = [kws EXCEPT ![k] = "closed"]
    /\ UNCHANGED <<inst, ktorn, kcorrID, kpending, kcall, muxVars, lifeVars,
                   notReconn>>

\* Client k's readLoop on the read error: close every channel of its table,
\* replace the table, close eventsCh
ClientReadErr(k) ==
    /\ kws[k] = "closed"
    /\ ~ktorn[k]
    /\ ktorn' = [ktorn EXCEPT ![k] = TRUE]
    /\ kcall' = [c \in 1..MaxConnCalls |->
                    IF c \in Range(kpending[TableOf(k)])
                    THEN [kcall[c] EXCEPT !.res = "closed", !.by = k]
                    ELSE kcall[c]]
    /\ kpending' = [kpending EXCEPT ![TableOf(k)] = EmptyMap]
    /\ UNCHANGED <<inst, kws, kcorrID, muxVars, lifeVars, notReconn>>

\* ------------------------------------------------- identity encoding
\* Strings are sequences of one-character strings.
Digits == <<"0", "1", "2", "3", "4", "5", "6", "7", "8", "9">>
DigitSet == {Digits[n] : n \in 1..10}
DigitVal(c) == (CHOOSE n \in 1..10 : Digits[n] = c) - 1

MinId == 0 - 2 ^ (IdBits - 1)
MaxId == 2 ^ (IdBits - 1) - 1
Ids == MinId..MaxId

\* fmt.Sprintf("%d", x) for x >= 0
RECURSIVE FormatNat(_)
FormatNat(n) ==
    IF n < 10 THEN <<Digits[n + 1]>>
    ELSE FormatNat(n \div 10) \o <<Digits[(n % 10) + 1]>>

\* fmt.Sprintf("%d", x)
FormatInt(x) == IF x < 0 THEN <<"-">> \o FormatNat(0 - x) ELSE FormatNat(x)

\* The value of a string of digits, or MaxId + 2 once it exceeds the range
\* (strconv.ParseInt stops with ErrRange there).
RECURSIVE DigitsValue(_)
DigitsValue(str) ==
    IF str = <<>> THEN 0
    ELSE LET head == DigitsValue(SubSeq(str, 1, Len(str) - 1))
             v == head * 10 + DigitVal(str[Len(str)])
         IN  IF head > MaxId + 1 \/ v > MaxId + 1 THEN MaxId + 2 ELSE v

ParseErr == [ok |-> FALSE, val |-> 0]

\* strconv.ParseInt(s, 10, 64): an optional sign, then one or more decimal
\* digits, the value within the range of the type
ParseInt(str) ==
    LET signed == str # <<>> /\ str[1] \in {"+", "-"}
        body == IF signed THEN SubSeq(str, 2, Len(str)) ELSE str
        neg == signed /\ str[1] = "-"
    IN  IF body = <<>> \/ \E n \in 1..Len(body) : body[n] \notin DigitSet
        THEN ParseErr
        ELSE IF neg
        THEN IF DigitsValue(body) > MaxId + 1 THEN ParseErr
             ELSE [ok |-> TRUE, val |-> 0 - DigitsValue(body)]
        ELSE IF DigitsValue(body) > MaxId THEN ParseErr
             ELSE [ok |-> TRUE, val |-> DigitsValue(body)]

\* strings.HasPrefix(s, "x:")
HasPrefix2(str, c) == Len(str) >= 2 /\ str[1] = c /\ str[2] = ":"

\* A group encoder that writes the prefix of the direct chats.
MakeGroupPortalIDAsDM(x) == <<"d", ":">> \o FormatInt(x)
MakeGroupPortalID(x) == <<"g", ":">> \o FormatInt(x)
MakeDMPortalID(x) == <<"d", ":">> \o FormatInt(x)
MakeUserID(x) == FormatInt(x)
MakeMemberUserID(hex) == <<"m", ":">> \o hex
MakeMessageID(x) == FormatInt(x)

\* ParsePortalID: [ok, chat, val]
ParsePortalID(str) ==
    IF HasPrefix2(str, "g")
    THEN LET r == ParseInt(SubSeq(str, 3, Len(str)))
         IN  IF r.ok THEN [ok |-> TRUE, chat |-> "group", val |-> r.val]
             ELSE [ok |-> FALSE, chat |-> "", val |-> 0]
    ELSE IF HasPrefix2(str, "d")
    THEN LET r == ParseInt(SubSeq(str, 3, Len(str)))
         IN  IF r.ok THEN [ok |-> TRUE, chat |-> "direct", val |-> r.val]
             ELSE [ok |-> FALSE, chat |-> "", val |-> 0]
    ELSE [ok |-> FALSE, chat |-> "", val |-> 0]

\* ParseUserID: -1 and no error for a key that starts with "m:"
ParseUserID(str) ==
    IF HasPrefix2(str, "m") THEN [ok |-> TRUE, val |-> 0 - 1]
    ELSE ParseInt(str)

ParseMessageID(str) == ParseInt(str)

\* The member ids (hex strings) the encoder is tried on.
MemberHexes == {<<"0">>, <<"1">>, <<"0", "1">>, <<>>}

\* The characters of the strings the parsers are tried on.
KeyChars == {"d", "g", "m", ":", "+", "-", "0", "1", "x"}
RECURSIVE KeysOfLen(_)
KeysOfLen(n) ==
    IF n = 0 THEN {<<>>}
    ELSE {k \o <<c>> : k \in KeysOfLen(n - 1), c \in KeyChars}
KeyStrings == UNION {KeysOfLen(n) : n \in 0..MaxKeyLen}

\* The encoders on the ids x and y and the member id hex, and the parsers on
\* the keys of x
EncodeIds(x, y, hex) ==
    /\ enc' = [done |-> TRUE, x |-> x, y |-> y,
                dm |-> MakeDMPortalID(x), group |-> MakeGroupPortalID(x),
                user |-> MakeUserID(x), msg |-> MakeMessageID(x),
                dmY |-> MakeDMPortalID(y), groupY |-> MakeGroupPortalID(y),
                userY |-> MakeUserID(y),
                member |-> MakeMemberUserID(hex),
                backDm |-> ParsePortalID(MakeDMPortalID(x)),
                backGroup |-> ParsePortalID(MakeGroupPortalID(x)),
                backUser |-> ParseUserID(MakeUserID(x)),
                backMsg |-> ParseMessageID(MakeMessageID(x)),
                backMember |-> ParseUserID(MakeMemberUserID(hex))]
    /\ UNCHANGED <<dec, muxVars, lifeVars, notId>>

\* The three parsers on one string
DecodeKey(str) ==
    /\ dec' = [done |-> TRUE, str |-> str,
                portal |-> ParsePortalID(str),
                user |-> ParseUserID(str),
                msg |-> ParseMessageID(str)]
    /\ UNCHANGED <<enc, muxVars, lifeVars, notId>>

\* ------------------------------------------------- contact and group events
ChatIds == 1..MaxChatIds

\* The events that concern one contact (Contact.ContactID, ToContact.ContactID)
\* or one group (GroupInfo.GroupID, ToGroup.GroupID).
ContactEventTypes == {"contactConnected", "contactUpdated"}
GroupEventTypes ==
    {"joinedGroupMember", "deletedMember", "leftMember", "groupUpdated"}

\* What AcceptContact may return: the sendCmd error, a response of another
\* type, an acceptingContactRequest that does not parse, or the contact.
AcceptResults ==
    {[res |-> r, contact |-> 0] : r \in {"err_send", "err_type", "err_parse"}}
        \cup {[res |-> "ok", contact |-> c] : c \in ChatIds}

\* A handler that takes every return of AcceptContact for a contact.
AcceptedAlways(r) == TRUE

\* handleReceivedContactRequest: err == nil after s.Client.AcceptContact
Accepted(r) == r.res = "ok"

\* simplevent.ChatResync with PortalKey{ID: MakeDMPortalID(id)} or
\* PortalKey{ID: MakeGroupPortalID(id)}, and its CreatePortal
ChatResync(chat, id, create) == [kind |-> chat, id |-> id, create |-> create]

\* A handler that queues nothing.
EventResyncsNone(type, id) == <<>>

\* handleContactConnected, handleContactUpdated, handleJoinedGroupMember,
\* handleMemberLeft, handleGroupUpdated: the ChatResync events one queues
EventResyncs(type, id) ==
    IF type = "contactConnected" THEN <<ChatResync("dm", id, TRUE)>>
    ELSE IF type = "contactUpdated" THEN <<>>
    ELSE <<ChatResync("group", id, FALSE)>>

\* handleReceivedContactRequest up to the call of s.Client.AcceptContact,
\* which blocks the event consumer until the response or an error is there
ContactRequestStart(req) ==
    /\ hpc = "idle"
    /\ Len(hevs) < MaxChatEvents
    /\ hevs' = Append(hevs, [type |-> "receivedContactRequest", id |-> req,
                              res |-> "pending", contact |-> 0])
    /\ hcmds' = Append(hcmds, req)
    /\ hpc' = "accepting"
    /\ UNCHANGED <<hops, hghosts, muxVars, lifeVars, notChat>>

\* handleReceivedContactRequest from the return of AcceptContact: on an
\* error it logs and returns; else it queues the resync of the new direct chat
ContactRequestReturn(r) ==
    /\ hpc = "accepting"
    /\ hevs' = [hevs EXCEPT ![Len(hevs)].res = r.res,
                             ![Len(hevs)].contact = r.contact]
    /\ hops' = IF Accepted(r)
               THEN Append(hops, ChatResync("dm", r.contact, TRUE))
               ELSE hops
    /\ hpc' = "idle"
    /\ UNCHANGED <<hcmds, hghosts, muxVars, lifeVars, notChat>>

\* handleSimplexEvent on a contact or group event; ghostOk: GetGhostByID of
\* handleContactUpdated returned a ghost
HandleChatEvent(type, id, ghostOk) ==
    /\ hpc = "idle"
    /\ Len(hevs) < MaxChatEvents
    /\ hevs' = Append(hevs, [type |-> type, id |-> id,
                              res |-> IF type = "contactUpdated" /\ ~ghostOk
                                      THEN "err_ghost" ELSE "ok",
                              contact |-> 0])
    /\ hops' = hops \o EventResyncs(type, id)
    /\ hghosts' = IF type = "contactUpdated" /\ ghostOk
                  THEN Append(hghosts, id)
                  ELSE hghosts
    /\ UNCHANGED <<hpc, hcmds, muxVars, lifeVars, notChat>>

\* ------------------------------------------------- edits and deletions
\* The chat info of an item: its type, chatInfo.Contact and chatInfo.GroupInfo
\* (0 stands for the nil pointer, an id for the ContactID or GroupID).
ChatInfos ==
    {[type |-> "direct", contact |-> c, groupInfo |-> 0] : c \in {0} \cup ChatIds}
        \cup {[type |-> "group", contact |-> 0, groupInfo |-> g] :
                g \in {0} \cup ChatIds}
        \cup {[type |-> "local", contact |-> 0, groupInfo |-> 0]}

\* dir.GroupMember: the empty sequence for nil, else the member with its
\* ContactID (0 for nil) and MemberID.
GroupMembers ==
    {<<>>} \cup {<<[contactID |-> c, memberID |-> <<"0", "1">>]>> :
                    c \in {0} \cup ChatIds}

\* The direction of an item: its type and dir.GroupMember.
ChatDirs ==
    {[type |-> t, groupMember |-> <<>>] :
        t \in {"directSnd", "groupSnd", "directRcv", "localSnd"}}
        \cup {[type |-> "groupRcv", groupMember |-> m] : m \in GroupMembers}

\* AChatItem: chat info, direction and item.Meta.ItemID.
AChatItems == [info : ChatInfos, dir : ChatDirs, id : 1..MaxItems]

\* The sender "unknown", and the portal id fmt.Sprintf("unknown:%s", type)
\* (the type kept as one token after the colon).
UnknownSender == <<"u", "n", "k", "n", "o", "w", "n">>
UnknownPortalID(type) == UnknownSender \o <<":", type>>

\* makePortalKeyFromChatInfo
MakePortalKeyFromChatInfo(info) ==
    IF info.type = "direct" /\ info.contact # 0
    THEN MakeDMPortalID(info.contact)
    ELSE IF info.type = "group" /\ info.groupInfo # 0
    THEN MakeGroupPortalID(info.groupInfo)
    ELSE UnknownPortalID(info.type)

\* makeEventSenderFromDir; loginID is what ParseUserLoginID(s.UserLogin.ID)
\* returned
MakeEventSenderFromDir(dir, loginID) ==
    IF dir.type \in {"directSnd", "groupSnd"} THEN MakeUserID(loginID)
    ELSE IF dir.type = "directRcv" THEN UnknownSender
    ELSE IF dir.type = "groupRcv"
    THEN IF dir.groupMember # <<>>
         THEN IF dir.groupMember[1].contactID # 0
              THEN MakeUserID(dir.groupMember[1].contactID)
              ELSE MakeMemberUserID(dir.groupMember[1].memberID)
         ELSE UnknownSender
    ELSE UnknownSender

\* makeEventSenderFromContact
MakeEventSenderFromContact(contact) ==
    IF contact = 0 THEN UnknownSender ELSE MakeUserID(contact)

\* The sender of an item's operation: makeEventSenderFromDir, replaced for
\* a directRcv item whose chat info has a contact.
ItemSender(aci, loginID) ==
    IF aci.dir.type = "directRcv" /\ aci.info.contact # 0
    THEN MakeEventSenderFromContact(aci.info.contact)
    ELSE MakeEventSenderFromDir(aci.dir, loginID)

\* The operation queued for an item: RemoteEventEdit or
\* RemoteEventMessageRemove, with PortalKey, Sender and TargetMessage.
ItemOp(type, aci, loginID) ==
    [type |-> type,
     portal |-> MakePortalKeyFromChatInfo(aci.info),
     sender |-> ItemSender(aci, loginID),
     target |-> MakeMessageID(aci.id)]

\* handleChatItemUpdated: one RemoteEventEdit for the event's item
HandleChatItemUpdated(aci, loginID) ==
    /\ ed' = [done |-> TRUE, kind |-> "chatItemUpdated", items |-> <<<<aci>>>>,
               ops |-> <<ItemOp("edit", aci, loginID)>>]
    /\ UNCHANGED <<muxVars, lifeVars, notEdit>>

\* The operations of a list of deletions: entries whose DeletedChatItem is
\* nil (the empty sequence) are passed over.
RECURSIVE RemoveOps(_, _)
RemoveOps(dels, loginID) ==
    IF dels = <<>> THEN <<>>
    ELSE (IF Head(dels) = <<>> THEN <<>>
          ELSE <<ItemOp("remove", Head(dels)[1], loginID)>>)
            \o RemoveOps(Tail(dels), loginID)

\* A handler that stops at the first deletion it has forwarded.
HandleChatItemsDeletedFirst(dels, loginID) ==
    /\ ed' = [done |-> TRUE, kind |-> "chatItemsDeleted", items |-> dels,
               ops |-> IF RemoveOps(dels, loginID) = <<>> THEN <<>>
                       ELSE <<Head(RemoveOps(dels, loginID))>>]
    /\ UNCHANGED <<muxVars, lifeVars, notEdit>>

\* handleChatItemsDeleted: one RemoteEventMessageRemove per deletion that
\* carries a DeletedChatItem
HandleChatItemsDeleted(dels, loginID) ==
    /\ ed' = [done |-> TRUE, kind |-> "chatItemsDeleted", items |-> dels,
               ops |-> RemoveOps(dels, loginID)]
    /\ UNCHANGED <<muxVars, lifeVars, notEdit>>

\* ------------------------------------------------- reaction events
\* A chatItemReaction event as the handler reads it: whether fromContact and
\* fromMember are there, the direction of chatReaction (none: absent),
\* whether the chat info names a contact, the target item id (0: the id is
\* absent and decodes as zero), and added.
ReactionEvents ==
    [contact : BOOLEAN, member : BOOLEAN,
     dir : {"none", "directSnd", "directRcv", "groupRcv"},
     chatContact : BOOLEAN, item : 0..MaxItems, added : BOOLEAN, seen : {TRUE}]

\* makeEventSenderFromDir
SenderFromDir(dir) ==
    IF dir = "directSnd" THEN "me"
    ELSE IF dir = "directRcv" THEN "unknown"
    ELSE "member"

\* handleChatItemReaction: the sender it settles on
ReactionSender(ev) ==
    IF ev.contact THEN "contact"
    ELSE IF ev.member THEN "member"
    ELSE IF ev.dir # "none"
    THEN IF ev.dir = "directRcv" /\ ev.chatContact
         THEN "contact"
         ELSE SenderFromDir(ev.dir)
    ELSE "me"

\* handleChatItemReaction: the simplevent.Reaction it queues
ReactionOp(ev) ==
    [type |-> IF ev.added THEN "reaction" ELSE "reaction_remove",
     sender |-> ReactionSender(ev),
     target |-> ev.item]

\* handleChatItemReaction (handlesimplex.go:1036): QueueRemoteEvent for
\* every event
HandleChatItemReaction(ev) ==
    /\ revt' = ev
    /\ rop' = ReactionOp(ev)
    /\ UNCHANGED <<muxVars, lifeVars, notRevt>>

\* handleChatItemReaction as the first copy in the file has it
\* (handlesimplex.go:333): the event is logged and nothing is queued
HandleChatItemReactionLogged(ev) ==
    /\ revt' = ev
    /\ rop' = NoOp
    /\ UNCHANGED <<muxVars, lifeVars, notRevt>>

\* ------------------------------------------------- Matrix reactions
\* simplexSupportedEmojis, strings as sequences of code points: the eight
\* symbols, and four of them followed by the variation selector U+FE0F
simplexSupportedEmojis ==
    {<< <<128077>>, <<128077>> >>, << <<128077, 65039>>, <<128077>> >>,
     << <<128078>>, <<128078>> >>, << <<128078, 65039>>, <<128078>> >>,
     << <<128512>>, <<128512>> >>,
     << <<128514>>, <<128514>> >>,
     << <<128546>>, <<128546>> >>,
     << <<10084>>, <<10084>> >>, << <<10084, 65039>>, <<10084>> >>,
     << <<128640>>, <<128640>> >>,
     << <<9989>>, <<9989>> >>, << <<9989, 65039>>, <<9989>> >>}

\* The eight symbols SimpleX accepts.
SimplexSymbols == {kv[2] : kv \in simplexSupportedEmojis}

\* The emoji a Matrix reaction may carry: every symbol SimpleX accepts, each
\* also with the variation selector, a symbol it does not accept (U+1F389)
\* with and without the selector, and the empty string.
EmojiInputs ==
    SimplexSymbols \cup {e \o <<65039>> : e \in SimplexSymbols}
        \cup {<<127881>>, <<127881, 65039>>, <<>>}

\* A lookup that takes every emoji as it is.
normalizeEmojiAny(emoji) == [emoji |-> emoji, ok |-> TRUE]

\* normalizeEmojiForSimplex: mapped, ok := simplexSupportedEmojis[emoji]
normalizeEmojiForSimplex(emoji) ==
    IF \E kv \in simplexSupportedEmojis : kv[1] = emoji
    THEN [emoji |-> (CHOOSE kv \in simplexSupportedEmojis : kv[1] = emoji)[2],
          ok |-> TRUE]
    ELSE [emoji |-> <<>>, ok |-> FALSE]

\* ReactToChatItem: the error it returns for what sendCmd gave it
ReactResult(answer) ==
    IF answer = "error" THEN "err_remote"
    ELSE IF answer # "chatItemReaction" THEN "err_type"
    ELSE "ok"

ReactAnswers == {"chatItemReaction", "other", "error"}

\* ReactToChatItem: the /_reaction command, on or off, with the emoji
ReactToChatItem(emoji, add) ==
    rxCmds' = Append(rxCmds, [emoji |-> emoji, add |-> add])

\* PreHandleMatrixReaction and HandleMatrixReaction on a reaction with the
\* emoji e; hasClient: s.Client != nil; idsOk: the portal and message ids
\* parse; answer: what simplex-chat answers to the command
HandleMatrixReaction(e, hasClient, idsOk, answer) ==
    /\ rxAdd = "none"
    /\ rxIn' = e
    /\ rxClient' = hasClient
    /\ IF ~hasClient
       THEN rxAdd' = "err_login" /\ rxCmds' = rxCmds
       ELSE IF ~normalizeEmojiForSimplex(e).ok
       THEN rxAdd' = "ok" /\ rxCmds' = rxCmds
       ELSE IF ~idsOk
       THEN rxAdd' = "err_parse" /\ rxCmds' = rxCmds
       ELSE /\ ReactToChatItem(normalizeEmojiForSimplex(e).emoji, TRUE)
            /\ rxAdd' = ReactResult(answer)
    /\ UNCHANGED <<rxRemove, muxVars, lifeVars, notReact>>

\* HandleMatrixReactionRemove on the reaction the add left with the bridge:
\* msg.TargetReaction.Emoji is the emoji PreHandleMatrixReaction returned
\* (HandleMatrixReaction returns an empty database.Reaction)
HandleMatrixReactionRemove(hasClient, idsOk, answer) ==
    /\ rxAdd = "ok"
    /\ rxRemove = "none"
    /\ IF ~hasClient
       THEN rxRemove' = "err_login" /\ rxCmds' = rxCmds
       ELSE IF ~idsOk
       THEN rxRemove' = "err_parse" /\ rxCmds' = rxCmds
       ELSE /\ ReactToChatItem(rxIn, FALSE)
            /\ rxRemove' = ReactResult(answer)
    /\ UNCHANGED <<rxIn, rxClient, rxAdd, muxVars, lifeVars, notReact>>

\* ------------------------------------------------- specifications
\* A caller's sendRaw, from the allocation of its corrId to sendRaw's return.
SendRaw(c, k) ==
    \/ SendCmd(c, k)
    \/ SendRawRegister(c)
    \/ SendRawWrite(c)
    \/ SendRawWriteFail(c)
    \/ SendRawRecv(c)
    \/ SendRawClosed(c)

\* A caller of SendMessages (sendCmd).
PlainCaller(c) ==
    \/ SendRaw(c, "plain")
    \/ SendCmdReturn(c)

\* A caller of SendMessagesRetryOnce (sendCmdRetryOnce, sendOneShotCmd).
FileCaller(c) ==
    \/ SendCmd(c, "file")
    \/ OneShotDial(c)
    \/ OneShotWrite(c)
    \/ OneShotRead(c)

\* readLoop's way out: the failed read, the teardown, the close of eventsCh.
ReaderTeardown ==
    \/ ReadLoopReadErr
    \/ ReadLoopTeardown
    \/ ReadLoopCloseEvents

\* readLoop on frames that carry a corrId, and its teardown.
ReaderCorr ==
    \/ ReaderTeardown
    \/ ReadLoopRoute
    \/ ReadLoopDeliver
    \/ ReadLoopSpurious

Reader ==
    \/ ReaderCorr
    \/ ReadLoopAsync

Consumer(limit) ==
    \/ EventLoopRecv(limit)
    \/ EventLoopHandled
    \/ EventLoopClosed

\* Spec: concurrent sends, the reader and its teardown.
Next ==
    \/ \E c \in 1..MaxCalls : SendRaw(c, "plain")
    \/ ReadLoopRead(MaxFrames, FramesRouting)
    \/ Reader
    \/ ClientClose

Spec == Init /\ [][Next]_vars

\* SpecRetry: plain and file-bearing sends with the one-shot fallback.
NextRetry ==
    \/ \E c \in 1..MaxRetryCalls : PlainCaller(c) \/ FileCaller(c)
    \/ ReadLoopRead(MaxRetryFrames, FramesResp)
    \/ ReaderCorr
    \/ ClientClose

SpecRetry == Init /\ [][NextRetry]_vars

\* SpecAlloc: concurrent plain and file-bearing sends on a connection that
\* fails before it answers, and the fallback of each file-bearing send up to
\* the allocation of its corrId.
NextAlloc ==
    \/ \E c \in 1..MaxAllocCalls :
          \/ SendCmd(c, "plain")
          \/ SendCmd(c, "file")
          \/ SendRawRegister(c)
          \/ SendRawWrite(c)
          \/ SendRawWriteFail(c)
          \/ SendRawClosed(c)
          \/ SendCmdReturn(c)
          \/ OneShotDial(c)
    \/ ReaderTeardown

SpecAlloc == Init /\ [][NextAlloc]_vars

\* SpecHandler: the reader, a burst of events and responses, and a consumer
\* whose handlers each issue one synchronous command.
FramesHandler == {[corr |-> k, body |-> "other"] : k \in 0..corrID}

ReaderSteps ==
    \/ ReadLoopRoute
    \/ ReadLoopDeliver
    \/ ReadLoopSpurious
    \/ ReadLoopAsync
    \/ ReadLoopTeardown
    \/ ReadLoopCloseEvents

NextHandler ==
    \/ \E c \in 1..MaxHandled :
          \/ HandlerSend(c)
          \/ SendRawRegister(c)
          \/ SendRawWrite(c)
          \/ SendRawWriteFail(c)
          \/ SendRawRecv(c)
          \/ SendRawClosed(c)
          \/ SendCmdReturn(c)
    \/ HandlerReturn
    \/ EventLoopRecv(MaxHandled)
    \/ EventLoopClosed
    \/ ReadLoopRead(EventCap + QueueSlack, FramesHandler)
    \/ ReadLoopReadErr
    \/ ReaderSteps
    \/ ClientClose

\* Every goroutine that can take a step takes it; a Read or Write on a
\* closed connection returns its error.
FairnessHandler ==
    /\ \A c \in 1..MaxHandled :
         /\ WF_vars(SendRawRegister(c))
         /\ WF_vars(SendRawWriteFail(c) /\ ws = "closed")
         /\ WF_vars(SendRawRecv(c))
         /\ WF_vars(SendRawClosed(c))
    /\ WF_vars(ReadLoopReadErr /\ ws = "closed")
    /\ WF_vars(ReaderSteps)

SpecHandler == Init /\ [][NextHandler]_vars /\ FairnessHandler

\* SpecDispatch: events of known and unknown type, payloads that decode or
\* not, the consumer that dispatches them, and a send on the connection.
FramesDispatch ==
    {[corr |-> 0, body |-> b] : b \in TypedBodies}
        \cup {[corr |-> k, body |-> "other"] : k \in 1..corrID}

NextDispatch ==
    \/ SendRaw(1, "plain")
    \/ ReadLoopRead(MaxEvFrames, FramesDispatch)
    \/ Reader
    \/ ClientClose
    \/ EventLoopRecv(MaxEvFrames)
    \/ \E decodes \in BOOLEAN : HandleSimplexEvent(decodes)
    \/ EventLoopClosed

SpecDispatch == Init /\ [][NextDispatch]_vars

\* SpecProto: concurrent SendMessages calls and responses of every shape.
FramesProto ==
    {[corr |-> k, body |-> b] : k \in 1..corrID,
                                b \in {"nil", "untyped", "newChatItems"}}

NextProto ==
    \/ \E c \in 1..MaxCalls : PlainCaller(c)
    \/ ReadLoopRead(MaxFrames, FramesProto)
    \/ ReaderCorr

SpecProto == Init /\ [][NextProto]_vars

\* SpecQueue: a burst of events against a slow consumer, one send pending.
NextQueue ==
    \/ SendRaw(1, "plain")
    \/ ReadLoopRead(EventCap + QueueSlack, FramesTyped)
    \/ Reader
    \/ Consumer(QueueSlack)

SpecQueue == Init /\ [][NextQueue]_vars

\* SpecEvents: the reader and the consumer of its events, no sends.
NextEvents ==
    \/ ReadLoopRead(MaxEvFrames, FramesRouting)
    \/ ReaderTeardown
    \/ ReadLoopRoute
    \/ ReadLoopSpurious
    \/ ReadLoopAsync
    \/ Consumer(MaxEvFrames)

SpecEvents == Init /\ [][NextEvents]_vars

\* FairSpec: Spec's sends and reader under the scheduling Go guarantees:
\* every goroutine that can take a step eventually takes it, a Read or
\* Write on a closed connection returns its error.  That the connection
\* fails, is closed, or delivers a frame is left to the environment.
NextFair ==
    \/ \E c \in 1..MaxFairCalls : SendRaw(c, "plain")
    \/ ReadLoopRead(MaxFairFrames, FramesResp)
    \/ ReaderCorr
    \/ ClientClose

Fairness ==
    /\ \A c \in 1..MaxFairCalls :
         /\ WF_vars(SendRawRegister(c))
         /\ WF_vars(SendRawWriteFail(c) /\ ws = "closed")
         /\ WF_vars(SendRawRecv(c))
         /\ WF_vars(SendRawClosed(c))
    /\ WF_vars(ReadLoopReadErr /\ ws = "closed")
    /\ WF_vars(ReadLoopRoute)
    /\ WF_vars(ReadLoopDeliver)
    /\ WF_vars(ReadLoopSpurious)
    /\ WF_vars(ReadLoopTeardown)
    /\ WF_vars(ReadLoopCloseEvents)

FairSpec == Init /\ [][NextFair]_vars /\ Fairness

\* SpecLife: one login's Connect, its connect cycles, its eventLoops, the
\* Clients they use and one Disconnect.
TryConnect(i) ==
    \/ TryConnectStart(i)
    \/ DialOk(i)
    \/ DialFail(i, MaxRetry)
    \/ WaitElapsed(i)
    \/ WaitCancelled(i)
    \/ Install(i)
    \/ Spawn(i)

EventLoop(k) ==
    \/ EventLoopStart(k)
    \/ EventLoopCtxDone(k)
    \/ EventLoopEvent(k)
    \/ EventLoopReturn(k)
    \/ EventLoopLoss(k)

ClientEnv(k) ==
    \/ EventArrives(k)
    \/ ConnLost(k)
    \/ ClientTeardown(k)

NextLife ==
    \/ \E hasURL \in BOOLEAN : Connect(hasURL)
    \/ \E i \in Cycles : TryConnect(i)
    \/ \E k \in Conns : EventLoop(k) \/ ClientEnv(k)
    \/ DisconnectCancel
    \/ DisconnectClose

SpecLife == Init /\ [][NextLife]_vars

\* SpecBackoff: one connect cycle against an endpoint that keeps refusing.
NextBackoff ==
    \/ Connect(TRUE)
    \/ \E i \in Cycles : \/ TryConnectStart(i)
                         \/ DialFail(i, MaxAttempts)
                         \/ WaitElapsed(i)

SpecBackoff == Init /\ [][NextBackoff]_vars

\* FairLife: SpecLife under the scheduling Go guarantees: a goroutine that
\* can take a step eventually takes it, a Read on a closed connection
\* returns its error.  Dial outcomes, timers and losses are the environment's.
FairnessLife ==
    /\ \A i \in Cycles : WF_vars(TryConnectStart(i)) /\ WF_vars(Install(i))
                           /\ WF_vars(Spawn(i))
    /\ \A k \in Conns : /\ WF_vars(EventLoopStart(k))
                        /\ WF_vars(EventLoopEvent(k))
                        /\ WF_vars(EventLoopReturn(k))
                        /\ WF_vars(EventLoopLoss(k))
                        /\ WF_vars(ClientTeardown(k))

FairLife == Init /\ [][NextLife]_vars /\ FairnessLife

\* SpecSync: connects, losses and a Disconnect of one login, with the
\* syncChats goroutine each connect launches.
SyncChats(k) ==
    \/ \E parseOk \in BOOLEAN : SyncStart(k, parseOk)
    \/ \E answer \in BOOLEAN : SyncContacts(k, answer) \/ SyncGroups(k, answer)
    \/ SyncMark(k)

NextSync ==
    \/ Connect(TRUE)
    \/ \E i \in Cycles : TryConnectStart(i) \/ DialOk(i) \/ Install(i) \/ Spawn(i)
    \/ \E k \in Conns : \/ EventLoopStart(k)
                        \/ EventLoopCtxDone(k)
                        \/ EventLoopLoss(k)
                        \/ ConnLost(k)
                        \/ ClientTeardown(k)
                        \/ SyncChats(k)
    \/ DisconnectCancel
    \/ DisconnectClose

SpecSync == Init /\ [][NextSync]_vars

\* SpecForward: newChatItems and rcvFileComplete events, of one or two items.
Batches ==
    {<<it>> : it \in ChatItems}
        \cup {<<it, jt>> : it \in ChatItems, jt \in ChatItems}

NextForward ==
    \/ \E batch \in Batches : HandleNewChatItems(batch)
    \/ \E it \in FileItems : HandleRcvFileComplete(it)

SpecForward == Init /\ [][NextForward]_vars

\* SpecEdits: one chatItemUpdated or chatItemsDeleted event, the latter
\* with one or two deletions.
Deletions == {<<>>} \cup {<<aci>> : aci \in AChatItems}
DeletionLists ==
    {<<d>> : d \in Deletions} \cup {<<d, f>> : d \in Deletions, f \in Deletions}

NextEdits ==
    /\ ~ed.done
    /\ \/ \E aci \in AChatItems, loginID \in ChatIds :
            HandleChatItemUpdated(aci, loginID)
       \/ \E dels \in DeletionLists, loginID \in ChatIds :
            HandleChatItemsDeleted(dels, loginID)

SpecEdits == Init /\ [][NextEdits]_vars

\* SpecReact: one Matrix reaction, added and then removed.
NextReact ==
    \/ \E e \in EmojiInputs, hasClient \in BOOLEAN, idsOk \in BOOLEAN,
          answer \in ReactAnswers : HandleMatrixReaction(e, hasClient, idsOk, answer)
    \/ \E hasClient \in BOOLEAN, idsOk \in BOOLEAN, answer \in ReactAnswers :
          HandleMatrixReactionRemove(hasClient, idsOk, answer)

SpecReact == Init /\ [][NextReact]_vars

\* SpecRevt: chatItemReaction events, handled by either copy of the handler.
NextRevt ==
    \/ \E ev \in ReactionEvents : HandleChatItemReaction(ev)
    \/ \E ev \in ReactionEvents : HandleChatItemReactionLogged(ev)

SpecRevt == Init /\ [][NextRevt]_vars

\* SpecReconn: the Clients one login installs one after the other, their
\* readLoops, and sends that each use the Client installed when they start.
NextReconn ==
    \/ NewClient
    \/ \E c \in 1..MaxConnCalls :
          \/ ClientSendCmd(c)
          \/ ClientRegister(c)
          \/ ClientWrite(c)
          \/ ClientRecv(c)
    \/ \E k \in Conns :
          \/ \E id \in 1..MaxConnCalls : ClientFrame(k, id)
          \/ ClientLost(k)
          \/ ClientReadErr(k)

SpecReconn == Init /\ [][NextReconn]_vars

\* SpecIds: the encoders on every pair of ids, the parsers on every string
\* of up to MaxKeyLen characters; one call in a behaviour.
NextIds ==
    /\ ~enc.done /\ ~dec.done
    /\ \/ \E x \in Ids, y \in Ids, hex \in MemberHexes : EncodeIds(x, y, hex)
       \/ \E str \in KeyStrings : DecodeKey(str)

SpecIds == Init /\ [][NextIds]_vars

\* SpecChat: contact requests, contact events and group events, handled one
\* after the other by the event consumer.
NextChat ==
    \/ \E req \in ChatIds : ContactRequestStart(req)
    \/ \E r \in AcceptResults : ContactRequestReturn(r)
    \/ \E type \in ContactEventTypes \cup GroupEventTypes, id \in ChatIds,
          ghostOk \in BOOLEAN : HandleChatEvent(type, id, ghostOk)

SpecChat == Init /\ [][NextChat]_vars

\* FairDial: FairLife with timers that fire and an endpoint that accepts a
\* dial sooner or later when dials keep coming.
FairnessDial ==
    \A i \in Cycles : WF_vars(WaitElapsed(i)) /\ SF_vars(DialOk(i))

FairDial == Init /\ [][NextLife]_vars /\ FairnessLife /\ FairnessDial

\* ================================================================ claims

\* The payload a call holds: returned by sendRaw, or buffered in its channel.
Payload(c) ==
    IF sendRes[c].st = "resp" THEN sendRes[c].val
    ELSE IF ch[c].st = "full" THEN ch[c].val
    ELSE NoFrame

\* C1: with any number of sends outstanding, the frame whose corrId is that
\* of a pending send goes to that send's channel and to no other: a send
\* only ever holds or returns a frame that carried its own corrId, and no
\* frame is held by two sends.
C1_CorrelationRouting ==
    /\ rpc = "deliver" => myCorr[rch] = cur.corr
    /\ \A c \in Calls :
         Payload(c) # NoFrame => Payload(c).corr = myCorr[c]
    /\ \A c, d \in Calls :
         (c # d /\ Payload(c) # NoFrame /\ Payload(d) # NoFrame)
            => Payload(c).fid # Payload(d).fid

\* Two sends were outstanding together and both returned their own
\* response, the later send's response having arrived first.
C1_Witness ==
    /\ sendRes[1].st = "resp"
    /\ sendRes[2].st = "resp"
    /\ sendRes[2].val.fid < sendRes[1].val.fid

C3_NoSendBlocksForever ==
    \A c \in 1..MaxFairCalls :
        (ws = "closed" /\ pc[c] \in {"alloc", "reg", "wait"})
            ~> (pc[c] = "returned")

\* A call registered its slot after the reader's teardown had cleared the
\* table and returned, and another call was resolved by the teardown.
C3_Witness ==
    /\ rpc = "done"
    /\ pc[2] = "reg"
    /\ Lookup(pending, myCorr[2]) = 2
    /\ pc[1] = "returned"
    /\ 1 \in tornSet

\* How a call's attempt on the persistent connection ended.
PersistentFailed(c) ==
    /\ pc[c] \in {"os_dial", "os_write", "os_read", "done"}
    /\ (sendRes[c].st # "resp" \/ ParseResult(sendRes[c].val.body) # "ok")

TransportFailed(c) ==
    /\ pc[c] \in {"os_dial", "os_write", "os_read", "done"}
    /\ sendRes[c].st \in {"write", "closed"}

\* C5 as claimed: a file-bearing send that fails on the persistent
\* connection, for any failure, is re-issued exactly once on the one-shot
\* fallback.
C5_Original ==
    \A c \in Calls :
        (kind[c] = "file" /\ PersistentFailed(c)) => oneShots[c] = 1

\* C5 amended: a file-bearing send whose persistent attempt ends in a
\* transport error (the write fails, or the connection closes before the
\* response) is re-issued exactly once on the one-shot fallback and never a
\* second time; one whose persistent attempt returned a response, also a
\* response that is then rejected, is not re-issued; a plain send never is.
C5_RetryOnTransportError ==
    \A c \in Calls :
        /\ oneShots[c] <= 1
        /\ writes[c] <= 1
        /\ pc[c] \in {"os_dial", "os_write", "os_read", "done"} =>
             (oneShots[c] = 1 <=> (kind[c] = "file" /\ TransportFailed(c)))

\* A file-bearing send lost the connection while waiting, was re-issued on
\* the one-shot connection and returned its result.
C5_Witness ==
    /\ kind[1] = "file"
    /\ sendRes[1].st = "closed"
    /\ oneShots[1] = 1
    /\ pc[1] = "done"
    /\ ret[1] = "ok"

\* The reader finishes the frame it routed as unmatched.
SpuriousStep == rpc = "spurious" /\ rpc' = "read"

\* C6 as claimed: every frame with a corrId that matches no pending send is
\* placed on the event stream.
C6_Original ==
    [][SpuriousStep => eventsCh' = Append(eventsCh, EventOf(cur))]_vars

\* C6 amended: a frame with a corrId that matches no pending send is placed
\* at the end of the event stream when its resp has a type and the queue
\* holds fewer than 64 events; without a typed resp, or with the queue full,
\* it is dropped and the queue is left as it was.
C6_UnmatchedTypedIsEvent ==
    [][SpuriousStep =>
         IF cur.body \in TypedBodies /\ Len(eventsCh) < EventCap
         THEN eventsCh' = Append(eventsCh, EventOf(cur))
         ELSE eventsCh' = eventsCh]_vars

\* The one frame read so far carried a corrId that was never allocated and
\* a typed resp, and it is in the event queue.
C6_Witness ==
    /\ spurEnq
    /\ corrID = 0
    /\ nread = 1
    /\ Len(eventsCh) = 1
    /\ eventsCh[1].fid = 1

\* C7: the consumer handles the events in the order the reader enqueued
\* them, one at a time and each once: the event in the handler is the one
\* enqueued right after the last handled one, and the queue holds the
\* following ones in their order.
C7_EventsInOrder ==
    /\ epc = "handling" <=> handling # NoEvent
    /\ epc = "handling" => handling.seq = nhandled + 1
    /\ \A i \in 1..Len(eventsCh) :
         eventsCh[i].seq = nhandled + (IF epc = "handling" THEN 1 ELSE 0) + i
    /\ nenq = nhandled + (IF epc = "handling" THEN 1 ELSE 0) + Len(eventsCh)

\* Two handlers have returned, the third event is in the handler and a
\* fourth waits in the queue.
C7_Witness ==
    /\ nhandled = 2
    /\ epc = "handling"
    /\ Len(eventsCh) = 1

\* The reader is about to offer an event to a full queue.
AtFullQueue ==
    /\ \/ rpc = "spurious"
       \/ rpc = "got" /\ cur.corr = 0
    /\ IsEvent(cur)
    /\ Len(eventsCh) = EventCap

\* C8: with 64 unconsumed events queued the reader drops the new event and
\* goes on reading without blocking; the queue never exceeds 64, keeps its
\* events and their order, and a response that arrives for a pending send is
\* still delivered to it.
C8_FullQueueDropsNewest ==
    /\ [](Len(eventsCh) <= EventCap)
    /\ [](AtFullQueue => ENABLED (ReadLoopAsync \/ ReadLoopSpurious))
    /\ [](rpc = "deliver" => (ch[rch].st = "empty" /\ myCorr[rch] = cur.corr))
    /\ [][(AtFullQueue /\ rpc' # rpc) =>
            (eventsCh' = eventsCh /\ rpc' = "read")]_vars

\* An event was dropped at a full queue, the queue still holds its 64
\* events, and a response that arrived later was returned to its send.
C8_Witness ==
    /\ lastDrop > 0
    /\ Len(eventsCh) = EventCap
    /\ sendRes[1].st = "resp"
    /\ sendRes[1].val.fid > lastDrop

\* The cycles started with the context of connection k, that is by the
\* eventLoop of connection k.
CyclesFrom(k) == {i \in Cycles : tc[i].pc # "none" /\ tc[i].ctx = k}

\* eventLoop k takes the closed-stream branch while its context is live.
ObservesLoss(k) ==
    /\ el[k].pc = "select"
    /\ el'[k].pc = "exit"
    /\ ~IsCancelled(k)

\* C9: whenever eventLoop finds the event stream closed while its context is
\* not cancelled, that step reports transient-disconnect and starts a new
\* connect cycle with attempt counter 0 under the same context; a loss is
\* followed by exactly one such cycle; a cycle that starts has counter 0
\* and its first step reports connecting; and under fair scheduling a closed
\* stream whose eventLoop runs is reported (unless the context is cancelled
\* meanwhile) and the new cycle gets to its connecting report.
C9_LossStartsOneCycle ==
    /\ [][\A k \in Conns : ObservesLoss(k) =>
            /\ lastStatus' = "transient_disconnect"
            /\ k \in lossReported'
            /\ ncycles' = ncycles + 1
            /\ tc'[ncycles'] = [pc |-> "start", ctx |-> k, retry |-> 0,
                                conn |-> 0, wait |-> 0]]_vars
    /\ [](\A k \in Conns :
            Cardinality(CyclesFrom(k)) = (IF k \in lossReported THEN 1 ELSE 0))
    /\ [](\A i \in Cycles : tc[i].pc = "start" => tc[i].retry = 0)
    /\ [][\A i \in Cycles : (tc[i].pc = "start" /\ tc'[i].pc # "start")
            => (tc'[i].pc = "dial" /\ lastStatus' = "connecting")]_vars
    /\ \A k \in Conns :
         (cevClosed[k] /\ el[k].pc \in {"select", "handling"} /\ el[k].evs = k)
            ~> (k \in lossReported \/ IsCancelled(k) \/ crashed)
    /\ \A k \in Conns :
         (k \in lossReported)
            ~> (crashed \/ \E i \in CyclesFrom(k) : tc[i].pc # "start")

\* C9 witness: connection 1 was lost with its context live, its eventLoop
\* reported it, and the one new cycle has reported connecting and is dialling.
C9_Witness ==
    /\ 1 \in lossReported
    /\ ~IsCancelled(1)
    /\ el[1].pc = "exit"
    /\ \E i \in CyclesFrom(1) : tc[i].pc = "dial" /\ tc[i].retry = 0
    /\ lastStatus = "connecting"

\* Disconnect has returned, and it was invoked during a backoff wait or
\* while the login was Connected.
DisconnectedDuring(cases) == dpc = "done" /\ discAt \in cases

\* C10 as stated: after a Disconnect invoked during a backoff wait (of the
\* initial cycle or of a cycle after a loss) or while Connected, no cycle
\* goes on to dial with a live context, no Client is created or installed,
\* and the login does not become Connected again.
C10_Original ==
    [][DisconnectedDuring({"wait_initial", "wait_after_loss", "connected"}) =>
        /\ \A i \in Cycles :
             (tc'[i].pc = "dial" /\ ~IsCancelled(tc[i].ctx)) => tc[i].pc = "dial"
        /\ nconns' = nconns
        /\ client' = 0]_vars

\* C11 as claimed: over the failed dials n = 0, 1, 2, ... of one connect
\* cycle the wait before the next dial never decreases and never exceeds
\* 150 seconds, for every n.
C11_Original ==
    [][\A i \in Cycles :
         (tc[i].pc = "dial" /\ tc'[i].pc = "wait")
            => (tc'[i].wait >= tc[i].wait /\ tc'[i].wait <= BackoffCap)]_vars

\* C12: a failed dial never ends a connect cycle: the cycle leaves its wait
\* only to dial again, or to return when its context is cancelled, and the
\* timer can always fire; under fairness, with an endpoint that accepts
\* sooner or later, a cycle whose context is not cancelled gets to Connected
\* (the last cycle the bound on Clients allows to start is left out: the
\* model has no Client left for it).
C12_NeverGivesUp ==
    /\ [][\A i \in Cycles :
            (tc[i].pc = "wait" /\ tc'[i].pc # "wait") =>
                \/ tc'[i].pc = "dial" /\ tc'[i].retry = tc[i].retry + 1
                \/ tc'[i].pc = "exit" /\ IsCancelled(tc[i].ctx)]_vars
    /\ [][\A i \in Cycles :
            (tc[i].pc = "dial" /\ tc'[i].pc # "dial") =>
                tc'[i].pc \in {"wait", "install"}]_vars
    /\ [](\A i \in Cycles : (tc[i].pc = "wait" /\ ~crashed) => ENABLED WaitElapsed(i))
    /\ \A i \in 1..MaxConns :
         (tc[i].pc \in {"start", "dial", "wait"})
            ~> \/ IsCancelled(tc[i].ctx)
               \/ tc[i].pc = "spawn" /\ client = tc[i].conn
                                     /\ lastStatus = "connected"

\* A cycle's dial failed twice, the third dial succeeded and the login is
\* Connected.
C12_Witness ==
    \E i \in Cycles :
        /\ tc[i].pc = "spawn"
        /\ tc[i].retry = 2
        /\ client = tc[i].conn
        /\ lastStatus = "connected"

\* The resyncs of every contact and group, with or without member payload.
AllResyncs(payload) ==
    [n \in 1..(Len(Contacts) + Len(Groups)) |->
        [chat |-> (Contacts \o Groups)[n], create |-> TRUE, members |-> payload]]

C14_PendingFileDeferred ==
    /\ fwd = {MessageOp(it) : it \in {jt \in seen : jt.file # "nopath"}}
                \cup {MessageOp(it) : it \in {jt \in completed : jt.file = "path"}}
    /\ \A op \in fwd : op.file # "nopath"
    /\ skipped = {it.id : it \in {jt \in seen : jt.file = "nopath"}}
    /\ \A i \in skipped :
          (\A it \in seen : it.id = i => it.file = "nopath") =>
              /\ \A op \in fwd : op.id = i => op.file = "path"
              /\ (\E op \in fwd : op.id = i)
                    <=> [id |-> i, file |-> "path"] \in completed

\* Item 1 was skipped by its newChatItems event for its pending file and is
\* forwarded with the path a rcvFileComplete event carried; item 2, without a
\* file, was forwarded by its newChatItems event.
C14_Witness ==
    /\ 1 \in skipped
    /\ seen = {[id |-> 1, file |-> "nopath"], [id |-> 2, file |-> "none"]}
    /\ completed = {[id |-> 1, file |-> "path"]}
    /\ fwd = {[id |-> 1, file |-> "path"], [id |-> 2, file |-> "none"]}

\* The corrIds allocated so far: one by every started send, one more by
\* every one-shot fallback that got its connection.
Allocated ==
    {myCorr[c] : c \in {d \in Calls : pc[d] # "idle"}}
        \cup {osCorr[c] : c \in {d \in Calls : osCorr[d] # 0}}

\* C15: the corrIds allocated on a Client are pairwise distinct, over plain
\* sends, file-bearing sends and their one-shot fallbacks, also when the
\* sends run concurrently; every allocation returned an id greater than all
\* ids allocated before it; and no allocation returned an id that was a key
\* of the pending table at that moment.
C15_CorrIdsIncreasingDistinct ==
    /\ \A c, d \in Calls :
         /\ (c # d /\ pc[c] # "idle" /\ pc[d] # "idle") => myCorr[c] # myCorr[d]
         /\ (c # d /\ osCorr[c] # 0 /\ osCorr[d] # 0) => osCorr[c] # osCorr[d]
         /\ (pc[c] # "idle" /\ osCorr[d] # 0) => myCorr[c] # osCorr[d]
    /\ Allocated = {allocLog[n].id : n \in 1..Len(allocLog)}
    /\ \A n, m \in 1..Len(allocLog) : n < m => allocLog[n].id < allocLog[m].id
    /\ \A n \in 1..Len(allocLog) : ~allocLog[n].clash
    /\ DOMAIN pending \subseteq Allocated

\* Two sends run concurrently: the first, file-bearing, failed on the
\* persistent connection and allocated the id of its fallback after the
\* second allocated its own, which is still registered in the pending table.
C15_Witness ==
    /\ kind[1] = "file" /\ myCorr[1] = 1 /\ osCorr[1] = 3
    /\ kind[2] = "plain" /\ myCorr[2] = 2
    /\ 2 \in DOMAIN pending
    /\ Len(allocLog) = 3

\* C16: a one-shot fallback issues one write on its own connection and no
\* second one; every frame its read loop went past did not carry its corrId,
\* and what it returns is made of a frame that does, the first such frame;
\* its steps leave the pending table, the registered channels and the event
\* queue of the persistent connection as they are; and once it has returned,
\* the connection it dialled is closed.
C16_OneShotIsolated ==
    /\ [](\A c \in Calls :
            /\ osWrites[c] <= 1
            /\ osWs[c] = "open" <=> pc[c] \in {"os_write", "os_read"}
            /\ pc[c] = "os_write" => osWrites[c] = 0
            /\ pc[c] = "os_read" =>
                  /\ osWrites[c] = 1
                  /\ ~OneShotMatch(osLast[c], osCorr[c])
            /\ (pc[c] = "done" /\ osWs[c] # "none") =>
                  /\ osWs[c] = "closed"
                  /\ osWrites[c] = 1
            /\ (pc[c] = "done" /\ oneShots[c] = 1 /\ ret[c] # "err_oneshot") =>
                  /\ osLast[c].corr = osCorr[c]
                  /\ osLast[c].body \in RespBodies
                  /\ ret[c] = ParseResult(osLast[c].body))
    /\ [][(\E c \in Calls : pc[c] \in {"os_dial", "os_write", "os_read"}
                              /\ <<pc[c], osLast[c]>>' # <<pc[c], osLast[c]>>)
            => UNCHANGED <<pending, ch, eventsCh, evCloses, ws>>]_vars

\* A file-bearing send failed on the persistent connection; its fallback
\* dialled, wrote its command once, returned the response that carries the
\* fallback's own corrId, and its connection is closed.
C16_Witness ==
    /\ pc[1] = "done" /\ kind[1] = "file" /\ oneShots[1] = 1
    /\ myCorr[1] = 1 /\ osCorr[1] = 2
    /\ osLast[1] = [corr |-> 2, body |-> "newChatItems"]
    /\ ret[1] = "ok"
    /\ osWrites[1] = 1
    /\ osWs[1] = "closed"

\* C17: a send without a file (SendMessages, sendCmd) writes at most one
\* command, on the persistent connection, and however it ends it never
\* calls the one-shot fallback: no fallback connection, no corrId for one,
\* no second write of the command.
C17_PlainSendPersistentOnly ==
    \A c \in Calls :
        kind[c] = "plain" =>
            /\ writes[c] <= 1
            /\ oneShots[c] = 0
            /\ osWs[c] = "none"
            /\ osCorr[c] = 0
            /\ osWrites[c] = 0
            /\ pc[c] \notin {"os_dial", "os_write", "os_read"}
            /\ ret[c] # "err_oneshot"

\* A send without a file wrote its command, lost the connection while it
\* waited, and returned the transport error.
C17_Witness ==
    /\ kind[1] = "plain"
    /\ pc[1] = "done"
    /\ writes[1] = 1
    /\ sendRes[1].st = "closed"
    /\ ret[1] = "err_transport"
    /\ oneShots[1] = 0

\* The keys of the supported set: the symbols and the U+FE0F forms it lists.
SupportedKeys == {kv[1] : kv \in simplexSupportedEmojis}

\* The add commands issued so far.
AddCmds == {n \in 1..Len(rxCmds) : rxCmds[n].add}

C19_Original ==
    (rxRemove \in {"ok", "err_remote", "err_type"}) =>
        IF rxIn \in SimplexSymbols \cup {e \o <<65039>> : e \in SimplexSymbols}
        THEN /\ Len(rxCmds) = 2
             /\ rxCmds[1] = [emoji |-> <<rxIn[1]>>, add |-> TRUE]
             /\ rxCmds[2] = [emoji |-> <<rxIn[1]>>, add |-> FALSE]
        ELSE rxCmds = <<>>

\* C20 as stated: for a reaction event with no contact, no member and no
\* direction, or with no target item id, nothing is queued.
C20_Original ==
    (revt.seen /\ ((~revt.contact /\ ~revt.member /\ revt.dir = "none")
                     \/ revt.item = 0))
        => rop = NoOp

\* The contact requests handled so far, in order, and those among them whose
\* accept returned a contact.
RequestsOf(evs) == SelectSeq(evs, LAMBDA e : e.type = "receivedContactRequest")
AcceptedOf(evs) ==
    SelectSeq(evs, LAMBDA e : e.type = "receivedContactRequest" /\ e.res = "ok")
DmResyncs(ops) == SelectSeq(ops, LAMBDA o : o.kind = "dm" /\ o.create)

\* C21: every contact request handled has its accept command issued, in the
\* order of the requests, and before anything is queued for it; the resyncs
\* queued for requests are exactly one per accept that succeeded, in order,
\* with CreatePortal and for the direct chat of the contact the accept
\* returned, so none for an accept that failed or is still outstanding;
\* after a return, failed or not, the handler is back where the next event
\* is taken.
C21_AcceptThenResync ==
    /\ hcmds = [n \in 1..Len(RequestsOf(hevs)) |-> RequestsOf(hevs)[n].id]
    /\ LET acc == AcceptedOf(hevs)
           dms == SelectSeq(hops, LAMBDA o : o.kind = "dm")
           con == SelectSeq(hevs, LAMBDA e : e.type = "contactConnected")
       IN  /\ Len(dms) = Len(acc) + Len(con)
           /\ \A n \in 1..Len(acc) :
                 \E m \in 1..Len(hops) : hops[m] = ChatResync("dm", acc[n].contact, TRUE)
           /\ (con = <<>>) =>
                 dms = [n \in 1..Len(acc) |-> ChatResync("dm", acc[n].contact, TRUE)]
    /\ hpc = "accepting" <=>
          (hevs # <<>> /\ hevs[Len(hevs)].res = "pending")
    /\ \A n \in 1..Len(hevs) : hevs[n].res = "pending" => n = Len(hevs)

\* A first request whose accept failed left nothing queued, and the next
\* request was handled: accepted, with the resync of the contact it returned.
C21_Witness ==
    /\ Len(hevs) = 2
    /\ hevs[1] = [type |-> "receivedContactRequest", id |-> 1,
                   res |-> "err_type", contact |-> 0]
    /\ hevs[2] = [type |-> "receivedContactRequest", id |-> 2,
                   res |-> "ok", contact |-> 1]
    /\ hcmds = <<1, 2>>
    /\ hops = <<ChatResync("dm", 1, TRUE)>>
    /\ hpc = "idle"

\* The contact and group events handled so far (contact requests left out).
ChatEventsOf(evs) ==
    SelectSeq(evs, LAMBDA e : e.type \in ContactEventTypes \cup GroupEventTypes)

\* What one handled event is to have queued: a request the resync of the
\* accepted contact's direct chat; contactConnected the resync of the
\* contact's direct chat; a member or group event the resync of the group;
\* contactUpdated nothing.
QueuedFor(e) ==
    IF e.type = "receivedContactRequest"
    THEN IF e.res = "ok" THEN <<[kind |-> "dm", id |-> e.contact, create |-> TRUE]>>
         ELSE <<>>
    ELSE IF e.type = "contactConnected"
    THEN <<[kind |-> "dm", id |-> e.id, create |-> TRUE]>>
    ELSE IF e.type \in GroupEventTypes
    THEN <<[kind |-> "group", id |-> e.id, create |-> FALSE]>>
    ELSE <<>>

RECURSIVE QueuedForAll(_)
QueuedForAll(evs) ==
    IF evs = <<>> THEN <<>>
    ELSE QueuedForAll(SubSeq(evs, 1, Len(evs) - 1)) \o QueuedFor(evs[Len(evs)])

\* C22 as stated: every contact-connected, contact-updated, member-joined,
\* member-left/deleted and group-updated event handled has exactly one resync
\* queued, for its chat.
C22_Original ==
    /\ Len(hops) = Len(AcceptedOf(hevs)) + Len(ChatEventsOf(hevs))
    /\ \A n \in 1..Len(hevs) :
          hevs[n].type \in ContactEventTypes \cup GroupEventTypes =>
              \E m \in 1..Len(hops) :
                  /\ hops[m].id = hevs[n].id
                  /\ hops[m].kind =
                        IF hevs[n].type \in ContactEventTypes THEN "dm" ELSE "group"

\* C22: every contact-connected event has exactly one resync queued, for the
\* direct chat of its contact (CreatePortal set); every member-joined,
\* member-left, member-deleted and group-updated event exactly one, for the
\* group of its group id (CreatePortal not set); a contact-updated event
\* has none queued: the contact's ghost gets UpdateInfo when the ghost is
\* found, and nothing happens when it is not.  Nothing else is queued.
C22_ResyncPerChatEvent ==
    /\ hops = QueuedForAll(hevs)
    /\ LET upd == SelectSeq(hevs, LAMBDA e : e.type = "contactUpdated" /\ e.res = "ok")
       IN  hghosts = [n \in 1..Len(upd) |-> upd[n].id]

\* A contact-updated event for contact 1 updated its ghost and queued
\* nothing; a group-updated event for group 2 queued the resync of group 2.
C22_Witness ==
    /\ Len(hevs) = 2
    /\ hevs[1].type = "contactUpdated" /\ hevs[1].id = 1 /\ hevs[1].res = "ok"
    /\ hevs[2].type = "groupUpdated" /\ hevs[2].id = 2
    /\ hops = <<[kind |-> "group", id |-> 2, create |-> FALSE]>>
    /\ hghosts = <<1>>

\* The four round trips of the id x that was encoded.
RoundTrips ==
    /\ enc.backDm = [ok |-> TRUE, chat |-> "direct", val |-> enc.x]
    /\ enc.backGroup = [ok |-> TRUE, chat |-> "group", val |-> enc.x]
    /\ enc.backMsg = [ok |-> TRUE, val |-> enc.x]
    /\ enc.backUser = [ok |-> TRUE, val |-> enc.x]

\* Keys of different kinds are different strings, whatever the ids.
KindsApart ==
    /\ enc.dm # enc.groupY
    /\ enc.group # enc.dmY
    /\ enc.member # enc.dm /\ enc.member # enc.group
    /\ enc.member # enc.user

\* C23 as the spec states it: for every id x the four round trips hold, keys
\* of different kinds are never equal, and ParseUserID returns different
\* results for a member key and for the contact key of x.
C23_Original ==
    enc.done => RoundTrips /\ KindsApart /\ enc.backMember # enc.backUser

\* C23: for every id x the four round trips hold and keys of different kinds
\* are never equal; ParseUserID returns different results for a member key
\* and for the contact key of x unless x is -1, the value it returns for
\* every member key.
C23_RoundTripsAndKinds ==
    enc.done =>
        /\ RoundTrips
        /\ KindsApart
        /\ (enc.x # 0 - 1 => enc.backMember # enc.backUser)
        /\ enc.backMember = [ok |-> TRUE, val |-> 0 - 1]

C23_Witness ==
    /\ enc.done /\ enc.x = MinId /\ enc.y = MinId
    /\ enc.backGroup = [ok |-> TRUE, chat |-> "group", val |-> MinId]
    /\ enc.member = <<"m", ":", "0", "1">>

\* The strings the encoders write for the ids.
PortalKeys == {MakeDMPortalID(x) : x \in Ids} \cup {MakeGroupPortalID(x) : x \in Ids}
NumberKeys == {FormatInt(x) : x \in Ids}

\* C24 as the spec states it: each parser returns an error for every string
\* that no encoder of its kind of key writes (for ParseUserID, the contact
\* encoder and the member encoder).
C24_Original ==
    dec.done =>
        /\ dec.portal.ok => dec.str \in PortalKeys
        /\ dec.msg.ok => dec.str \in NumberKeys
        /\ dec.user.ok => dec.str \in NumberKeys \/ HasPrefix2(dec.str, "m")
\* C25: a slot is resolved at most once.  A channel in the table is
\* unresolved (empty, open), so the teardown closes only channels that got
\* no payload and were not closed; the channel readLoop is about to send on
\* is out of the table, empty and open, so no payload goes to a closed or
\* filled channel; a channel the teardown closed never holds a payload and
\* its call never returns one; a closed channel is one the teardown closed.
C25_SlotResolvedOnce ==
    /\ \A k \in DOMAIN pending : ch[pending[k]].st = "empty"
    /\ \A k, j \in DOMAIN pending : pending[k] = pending[j] => k = j
    /\ rpc = "deliver" =>
          /\ rch \in Calls
          /\ ch[rch].st = "empty"
          /\ rch \notin Range(pending)
    /\ \A c \in Calls :
          /\ c \in tornSet => ch[c].st = "closed" /\ sendRes[c].st # "resp"
          /\ ch[c].st = "closed" => c \in tornSet
          /\ ch[c].st = "full" => c \notin Range(pending)

\* Call 1 got its response; a second frame with call 1's corrId found no
\* slot; call 2's slot was closed by the teardown and its write failed.
C25_Witness ==
    /\ sendRes[1].st = "resp"
    /\ nread = 2
    /\ spurEnq
    /\ 2 \in tornSet
    /\ sendRes[2].st = "write"
\* Every goroutine of the login has finished or waits for input that never
\* comes: no connect cycle and no Disconnect is under way.
LifeQuiet ==
    /\ dpc = "done"
    /\ \A i \in Cycles : tc[i].pc \in {"none", "exit"}
    /\ \A k \in Conns : el[k].pc \in {"none", "exit"}

\* C26 as the spec states it: Disconnect ran while the reconnect attempt
\* that followed a connection loss was inside simplexclient.New; once both
\* have finished no Client is installed (the login is not logged in) and
\* no connection is left open.
C26_Original ==
    (LifeQuiet /\ discAt \in {"dial_after_loss", "new_after_loss"}) =>
        /\ client = 0
        /\ \A k \in Conns : cws[k] # "open"
\* readLoop is between two reads: it holds a frame or tears down.
ReaderBusy == rpc \notin {"read", "done"}

\* The response to call c is in readLoop's hands or in c's channel.
ResponseRead(c) ==
    \/ rpc = "got" /\ cur.corr = myCorr[c] /\ Lookup(pending, myCorr[c]) = c
    \/ rpc = "deliver" /\ rch = c
    \/ ch[c].st = "full"

\* C27: readLoop never waits on the consumer or on a caller: between two
\* reads it always has a step to take, whatever the consumer and the
\* callers do and however full eventsCh is; and a command a handler issued
\* from inside the consumer returns from sendRaw once its response was read
\* or the connection is closed.
C27_ReaderNeverWaits ==
    /\ [](ReaderBusy => ENABLED ReaderSteps)
    /\ \A c \in 1..MaxHandled :
          (pc[c] = "wait" /\ epc = "handling" /\ (ws = "closed" \/ ResponseRead(c)))
              ~> (pc[c] = "returned")

\* The handler of the first event waits for its response while eventsCh is
\* full, and readLoop has the response in its hands.
C27_Witness ==
    /\ epc = "handling"
    /\ pc[1] = "wait"
    /\ Len(eventsCh) = EventCap
    /\ rpc = "deliver" /\ rch = 1
\* The eventLoop goroutines that run, and the Clients whose connection is up.
RunningLoops == {k \in Conns : el[k].pc \in {"start", "select", "handling"}}
OpenConns == {k \in Conns : cws[k] = "open"}

\* C28: at most one eventLoop runs and at most one Client's connection is
\* open at any time; the Client installed is the newest one; while an
\* eventLoop handles an event every other eventLoop has returned; a new
\* Client is made only after the eventLoop of the previous one returned.
C28_OneConsumerOneConnection ==
    /\ Cardinality(RunningLoops) <= 1
    /\ Cardinality(OpenConns) <= 1
    /\ client \in {0, nconns} \/ \E i \in Cycles : tc[i].pc = "install"
    /\ \A k \in Conns :
          el[k].pc = "handling" =>
              /\ el[k].evs = k
              /\ \A j \in Conns \ {k} : el[j].pc \in {"none", "exit"}
    /\ \A k \in Conns :
          (k > 1 /\ cws[k] # "none") => el[k - 1].pc = "exit" /\ cws[k - 1] = "closed"

\* After a loss and a reconnect the second eventLoop handles an event; the
\* first has returned and its connection is closed.
C28_Witness ==
    /\ el[2].pc = "handling"
    /\ el[1].pc = "exit"
    /\ client = 2
    /\ cws[1] = "closed" /\ cws[2] = "open"
    /\ dpc = "idle"
\* The copies of a call's command that were written to the remote process,
\* on the persistent connection and on the call's fallback connection.
CommandsWritten(c) == writes[c] + osWrites[c]

\* C30 as the spec states it: the command of a file-bearing send reaches
\* the remote process at most once, so that it cannot execute it twice.
C30_Original ==
    \A c \in 1..MaxRetryCalls : kind[c] = "file" => CommandsWritten(c) <= 1
\* C29: a send is resolved only through the Client it was issued on: the
\* payload it gets was read by that Client's readLoop under the send's own
\* corrId, the close it gets is that Client's teardown; a slot sits only in
\* the table of its send's Client, whatever corrIds the other Clients use.
C29_NoCrossConnectionDelivery ==
    /\ \A c \in 1..MaxConnCalls :
          /\ kcall[c].res \in {"resp", "closed"} => kcall[c].by = kcall[c].conn
          /\ kcall[c].res = "resp" => kcall[c].frame = kcall[c].corr
    /\ \A k \in Conns : \A id \in DOMAIN kpending[k] :
          /\ kcall[kpending[k][id]].conn = k
          /\ kcall[kpending[k][id]].corr = id

\* A send issued on the first Client registered its slot after that
\* Client's teardown; a send issued on the second Client under the same
\* corrId got its response from the second connection.
C29_Witness ==
    /\ kcall[1].conn = 1 /\ kcall[1].corr = 1 /\ kcall[1].pc = "reg"
    /\ ktorn[1]
    /\ kcall[2].conn = 2 /\ kcall[2].corr = 1
    /\ kcall[2].res = "resp" /\ kcall[2].by = 2

\* handleSimplexEvent ran on an event it could not dispatch.
BadEvent(r) == r.typ \notin {"newChatItems"} \/ ~r.decodes

\* C32: an event of unknown type or with a payload that does not decode
\* reaches no handler (forwards nothing); the step that handles it leaves
\* the connection, the pending table, the sends' channels, the reader and
\* the event queue as they were and puts the consumer back at its select,
\* where it takes the next event.
C32_BadEventIsolated ==
    /\ [](\A n \in 1..Len(dlog) : BadEvent(dlog[n]) => dlog[n].handler = "none")
    /\ [][(Len(dlog') = Len(dlog) + 1 /\ BadEvent(dlog'[Len(dlog')])) =>
            /\ ws' = ws /\ pending' = pending /\ ch' = ch /\ pc' = pc
            /\ rpc' = rpc /\ eventsCh' = eventsCh /\ evCloses' = evCloses
            /\ epc' = "select"]_vars

\* A newChatItems event that did not decode and an event of unknown type
\* were handled while a send was waiting; the next event reached its handler
\* and the connection is up.
C32_Witness ==
    /\ Len(dlog) = 3
    /\ dlog[1].typ = "newChatItems" /\ ~dlog[1].decodes
    /\ dlog[2].typ = "other"
    /\ dlog[3].handler = "newChatItems"
    /\ pc[1] = "wait"
    /\ ws = "open"

\* What SendMessages returns on a response it cannot use.
ProtocolErrors == {"err_type", "err_parse"}

\* C33: a send whose response is not a newChatItems payload returns a
\* protocol error (no response is taken for a success); the step in which it
\* returns that error leaves the connection, the pending table, the
\* channels, the reader and every other send as they were; and readLoop goes
\* back to reading after it delivered such a response.
C33_ProtocolErrorKeepsConnection ==
    /\ [](\A c \in 1..MaxCalls :
            (pc[c] = "done" /\ sendRes[c].st = "resp") =>
                (ret[c] = "ok" <=> sendRes[c].val.body = "newChatItems")
                /\ (ret[c] # "ok" => ret[c] \in ProtocolErrors))
    /\ [][\A c \in 1..MaxCalls :
            (ret[c] = "none" /\ ret'[c] \in ProtocolErrors) =>
                /\ ws' = ws /\ pending' = pending /\ ch' = ch
                /\ rpc' = rpc /\ cur' = cur
                /\ \A d \in (1..MaxCalls) \ {c} :
                      pc'[d] = pc[d] /\ ret'[d] = ret[d] /\ sendRes'[d] = sendRes[d]]_vars
    /\ [][(rpc = "deliver" /\ rpc' # rpc) => (rpc' = "read" /\ ws' = ws)]_vars

\* The first send returned a protocol error; the second, issued with a
\* later corrId on the same connection, succeeded, and the reader reads on.
C33_Witness ==
    /\ ret[1] = "err_parse"
    /\ ret[2] = "ok"
    /\ myCorr[2] > myCorr[1]
    /\ ws = "open"
    /\ rpc = "read"

\* C34: the step in which readLoop reads a frame that is not JSON changes
\* nothing but the count of frames read: the pending table, the channels,
\* the event queue and the connection stay as they were and readLoop is
\* back at its Read, so the next frame is read and routed.
C34_BadFrameSkipped ==
    [][lastBad' # lastBad =>
          /\ lastBad' = nread'
          /\ pending' = pending /\ ch' = ch
          /\ eventsCh' = eventsCh /\ evCloses' = evCloses /\ nenq' = nenq
          /\ ws' = ws
          /\ pc' = pc /\ sendRes' = sendRes
          /\ rpc' = "read" /\ cur' = cur]_vars

\* The first frame was not JSON; the second, the response to call 1, is
\* being delivered to call 1.
C34_Witness ==
    /\ lastBad = 1
    /\ nread = 2
    /\ rpc = "deliver" /\ rch = 1 /\ cur.fid = 2
    /\ pc[1] = "wait"
    /\ ws = "open"

\* C35 as the spec states it: no item has more than one new-message
\* operation queued, whatever newChatItems and rcvFileComplete events
\* arrive for it: a rcvFileComplete event that queues the operation of its
\* item finds none queued for that item before.
C35_Original ==
    [][\A it \in completed' \ completed :
          ~PendingFile(it) => \A op \in fwd : op.id # it.id]_vars

\* C36 as the spec states it: the persisted ChatsSynced flag is true only
\* when some syncChats run got both its contact listing and its group
\* listing answered; a run whose listings failed leaves the flag false.
C36_Original ==
    chatsSynced => \E k \in Conns : sy[k].cok /\ sy[k].gok

\* C37 as the spec states it: the portal key and the sender id of every
\* forwarded operation are accepted by ParsePortalID and ParseUserID,
\* whatever the chat info type and the item direction.
C37_Original ==
    ed.done =>
        \A n \in 1..Len(ed.ops) :
            /\ ParsePortalID(ed.ops[n].portal).ok
            /\ ParseUserID(ed.ops[n].sender).ok

\* The deletions of an event that carry a DeletedChatItem, in their order.
Carried(dels) == SelectSeq(dels, LAMBDA d : d # <<>>)

\* C39: a chatItemUpdated event queues exactly one edit, and a
\* chatItemsDeleted event exactly one removal per deletion that carries a
\* deleted item and none for the others; each operation targets the message
\* id of its item, and its portal key is the key of that item's direct chat
\* or group.
C39_OneOperationPerItem ==
    ed.done =>
        /\ Len(ed.ops) = Len(Carried(ed.items))
        /\ ed.kind = "chatItemUpdated" => Len(ed.ops) = 1
        /\ \A n \in 1..Len(ed.ops) :
              LET op == ed.ops[n]
                  aci == Carried(ed.items)[n][1]
              IN  /\ op.type = IF ed.kind = "chatItemUpdated"
                               THEN "edit" ELSE "remove"
                  /\ ParseMessageID(op.target) = [ok |-> TRUE, val |-> aci.id]
                  /\ aci.info.type = "direct" /\ aci.info.contact # 0
                        => ParsePortalID(op.portal) =
                              [ok |-> TRUE, chat |-> "direct",
                               val |-> aci.info.contact]
                  /\ aci.info.type = "group" /\ aci.info.groupInfo # 0
                        => ParsePortalID(op.portal) =
                              [ok |-> TRUE, chat |-> "group",
                               val |-> aci.info.groupInfo]

\* An event of two deletions, both with a deleted item, of two chats: two
\* removals, one for each.
C39_Witness ==
    /\ ed.done
    /\ ed.kind = "chatItemsDeleted"
    /\ Len(ed.items) = 2
    /\ ed.items[1] # <<>>
    /\ ed.items[2] # <<>>
    /\ ed.items[1][1].info.type = "direct"
    /\ ed.items[1][1].info.contact # 0
    /\ ed.items[2][1].info.type = "group"
    /\ ed.items[2][1].info.groupInfo # 0
    /\ ed.items[1][1].id # ed.items[2][1].id
    /\ Len(ed.ops) = 2

\* The steps of tryConnect after a successful dial: the one that installs
\* the Client, reports StateConnected and launches syncChats, and the one
\* that launches eventLoop.
InstallStep(i) == tc[i].pc = "install" /\ tc'[i].pc = "spawn"
SpawnStep(i) == tc[i].pc = "spawn" /\ tc'[i].pc = "exit"

PowCapped(k) ==
    IF k >= 8 THEN BackoffCap
    ELSE IF 2 ^ k > BackoffCap THEN BackoffCap ELSE 2 ^ k

\* C40 as the spec states it: the wait after the n-th failed dial of a
\* cycle, n counted from 0, is min(2^n, 150) seconds.
C40_Original ==
    \A i \in Cycles : tc[i].pc = "wait" => tc[i].wait = PowCapped(tc[i].retry)

\* C40: the wait after the n-th failed dial of a cycle, n counted from 0, is
\* min(2^(n+1), 150) seconds (2, 4, 8, ..., 128, then 150), for every n
\* whose shift stays within the int (n + 1 below the sign bit).
C40_WaitDoublesFromTwo ==
    \A i \in Cycles :
        tc[i].pc = "wait" /\ tc[i].retry + 1 < IntBits - 1
            => tc[i].wait = PowCapped(tc[i].retry + 1)

\* The eighth failed dial (n = 7) is the first whose wait is the cap; the
\* one before waited 128 seconds.
C40_Witness ==
    /\ tc[1].pc = "wait"
    /\ tc[1].retry = 7
    /\ tc[1].wait = BackoffCap
====
